---- MODULE Spec2Model ----
(***************************************************************************)
(* The in-process observability engine of europa-fastagent:                *)
(*   monitoring/alerting.py  ErrorTracker (classification, deduplication,  *)
(*                           alert rules, cooldowns, capacity pruning)     *)
(*   monitoring/metrics.py   MetricsCollector (counters, gauges, bounded   *)
(*                           sample windows, summaries)                    *)
(*                                                                         *)
(* Python strings are tuples of characters, so that substring tests,       *)
(* lower-casing, encoding and concatenation are computed, not assumed.     *)
(* Wall-clock time is an integer number of clock ticks; a second has       *)
(* TicksPerSecond ticks, so int(time.time()) is a real truncation.         *)
(***************************************************************************)
EXTENDS Integers, Sequences, FiniteSets, TLC

(***************************************************************************)
(* Bounds of the model.                                                    *)
(***************************************************************************)
MaxCalls == 3
MaxMaxErrors == 2
MaxTicks == 2
TicksPerSecond == 2

(***************************************************************************)
(* Program constants.                                                      *)
(***************************************************************************)
DefaultCooldownSeconds == 300
ErrorRateWindowSeconds == 300
ErrorRateMinutes == 5
PruneCount == 100
RecentErrorsMaxLen == 1000
DefaultMaxErrors == 5000

(***************************************************************************)
(* Strings.  A character is a string: a printable ASCII character is       *)
(* written as itself (the grave accent apart, which no string here can     *)
(* hold), any other character as "U+" and its code point in hexadecimal,   *)
(* of four digits or more ("U+212A" is the Kelvin sign).  A Python str is  *)
(* a tuple of characters.                                                  *)
(***************************************************************************)
\* the characters U+0020 to U+007E
AsciiChars ==
  <<" ", "!", "\"", "#", "$", "%", "&", "'", "(", ")", "*", "+", ",", "-",
    ".", "/", "0", "1", "2", "3", "4", "5", "6", "7", "8", "9", ":", ";",
    "<", "=", ">", "?", "@", "A", "B", "C", "D", "E", "F", "G", "H", "I",
    "J", "K", "L", "M", "N", "O", "P", "Q", "R", "S", "T", "U", "V", "W",
    "X", "Y", "Z", "[", "\\", "]", "^", "_", "U+0060", "a", "b", "c", "d",
    "e", "f", "g", "h", "i", "j", "k", "l", "m", "n", "o", "p", "q", "r",
    "s", "t", "u", "v", "w", "x", "y", "z", "{", "|", "}", "~">>

AsciiCapitals ==
  {"A","B","C","D","E","F","G","H","I","J","K","L","M",
   "N","O","P","Q","R","S","T","U","V","W","X","Y","Z"}

HexDigits == <<"0","1","2","3","4","5","6","7","8","9","A","B","C","D","E","F">>

\* the number a string of hexadecimal digits writes
RECURSIVE HexValue(_)
HexValue(digits) ==
  IF Len(digits) = 0 THEN 0
  ELSE 16 * HexValue(SubSeq(digits, 1, Len(digits) - 1))
         + (CHOOSE d \in 0..15 : HexDigits[d + 1] = SubSeq(digits, Len(digits), Len(digits)))

\* a number in hexadecimal digits
RECURSIVE HexOf(_)
HexOf(n) == IF n < 16 THEN HexDigits[n + 1] ELSE HexOf(n \div 16) \o HexDigits[(n % 16) + 1]

\* ord(c)
ord(c) ==
  IF Len(c) = 1 THEN 31 + (CHOOSE i \in 1..95 : AsciiChars[i] = c)
  ELSE HexValue(SubSeq(c, 3, Len(c)))

\* chr(n)
chr(n) ==
  IF 32 <= n /\ n <= 126 THEN AsciiChars[n - 31]
  ELSE "U+" \o SubSeq("000", 1, 4 - Len(HexOf(n))) \o HexOf(n)

\* The simple lower-case mappings of the Unicode Character Database, version
\* 14.0.0 (the one of Python 3.11), outside ASCII: <<first, last, step, d>>
\* says that the code points first, first + step, ..., last map to the code
\* point d above them
LowerRanges ==
  {<<192, 214, 1, 32>>, <<216, 222, 1, 32>>, <<256, 302, 2, 1>>,
    <<306, 310, 2, 1>>, <<313, 327, 2, 1>>, <<330, 374, 2, 1>>,
    <<376, 376, 1, -121>>, <<377, 381, 2, 1>>, <<385, 385, 1, 210>>,
    <<386, 388, 2, 1>>, <<390, 390, 1, 206>>, <<391, 391, 1, 1>>,
    <<393, 394, 1, 205>>, <<395, 395, 1, 1>>, <<398, 398, 1, 79>>,
    <<399, 399, 1, 202>>, <<400, 400, 1, 203>>, <<401, 401, 1, 1>>,
    <<403, 403, 1, 205>>, <<404, 404, 1, 207>>, <<406, 406, 1, 211>>,
    <<407, 407, 1, 209>>, <<408, 408, 1, 1>>, <<412, 412, 1, 211>>,
    <<413, 413, 1, 213>>, <<415, 415, 1, 214>>, <<416, 420, 2, 1>>,
    <<422, 422, 1, 218>>, <<423, 423, 1, 1>>, <<425, 425, 1, 218>>,
    <<428, 428, 1, 1>>, <<430, 430, 1, 218>>, <<431, 431, 1, 1>>,
    <<433, 434, 1, 217>>, <<435, 437, 2, 1>>, <<439, 439, 1, 219>>,
    <<440, 440, 1, 1>>, <<444, 444, 1, 1>>, <<452, 452, 1, 2>>,
    <<453, 453, 1, 1>>, <<455, 455, 1, 2>>, <<456, 456, 1, 1>>,
    <<458, 458, 1, 2>>, <<459, 475, 2, 1>>, <<478, 494, 2, 1>>,
    <<497, 497, 1, 2>>, <<498, 500, 2, 1>>, <<502, 502, 1, -97>>,
    <<503, 503, 1, -56>>, <<504, 542, 2, 1>>, <<544, 544, 1, -130>>,
    <<546, 562, 2, 1>>, <<570, 570, 1, 10795>>, <<571, 571, 1, 1>>,
    <<573, 573, 1, -163>>, <<574, 574, 1, 10792>>, <<577, 577, 1, 1>>,
    <<579, 579, 1, -195>>, <<580, 580, 1, 69>>, <<581, 581, 1, 71>>,
    <<582, 590, 2, 1>>, <<880, 882, 2, 1>>, <<886, 886, 1, 1>>,
    <<895, 895, 1, 116>>, <<902, 902, 1, 38>>, <<904, 906, 1, 37>>,
    <<908, 908, 1, 64>>, <<910, 911, 1, 63>>, <<913, 929, 1, 32>>,
    <<931, 939, 1, 32>>, <<975, 975, 1, 8>>, <<984, 1006, 2, 1>>,
    <<1012, 1012, 1, -60>>, <<1015, 1015, 1, 1>>, <<1017, 1017, 1, -7>>,
    <<1018, 1018, 1, 1>>, <<1021, 1023, 1, -130>>, <<1024, 1039, 1, 80>>,
    <<1040, 1071, 1, 32>>, <<1120, 1152, 2, 1>>, <<1162, 1214, 2, 1>>,
    <<1216, 1216, 1, 15>>, <<1217, 1229, 2, 1>>, <<1232, 1326, 2, 1>>,
    <<1329, 1366, 1, 48>>, <<4256, 4293, 1, 7264>>, <<4295, 4295, 1, 7264>>,
    <<4301, 4301, 1, 7264>>, <<5024, 5103, 1, 38864>>, <<5104, 5109, 1, 8>>,
    <<7312, 7354, 1, -3008>>, <<7357, 7359, 1, -3008>>,
    <<7680, 7828, 2, 1>>, <<7838, 7838, 1, -7615>>, <<7840, 7934, 2, 1>>,
    <<7944, 7951, 1, -8>>, <<7960, 7965, 1, -8>>, <<7976, 7983, 1, -8>>,
    <<7992, 7999, 1, -8>>, <<8008, 8013, 1, -8>>, <<8025, 8031, 2, -8>>,
    <<8040, 8047, 1, -8>>, <<8072, 8079, 1, -8>>, <<8088, 8095, 1, -8>>,
    <<8104, 8111, 1, -8>>, <<8120, 8121, 1, -8>>, <<8122, 8123, 1, -74>>,
    <<8124, 8124, 1, -9>>, <<8136, 8139, 1, -86>>, <<8140, 8140, 1, -9>>,
    <<8152, 8153, 1, -8>>, <<8154, 8155, 1, -100>>, <<8168, 8169, 1, -8>>,
    <<8170, 8171, 1, -112>>, <<8172, 8172, 1, -7>>, <<8184, 8185, 1, -128>>,
    <<8186, 8187, 1, -126>>, <<8188, 8188, 1, -9>>,
    <<8486, 8486, 1, -7517>>, <<8490, 8490, 1, -8383>>,
    <<8491, 8491, 1, -8262>>, <<8498, 8498, 1, 28>>, <<8544, 8559, 1, 16>>,
    <<8579, 8579, 1, 1>>, <<9398, 9423, 1, 26>>, <<11264, 11311, 1, 48>>,
    <<11360, 11360, 1, 1>>, <<11362, 11362, 1, -10743>>,
    <<11363, 11363, 1, -3814>>, <<11364, 11364, 1, -10727>>,
    <<11367, 11371, 2, 1>>, <<11373, 11373, 1, -10780>>,
    <<11374, 11374, 1, -10749>>, <<11375, 11375, 1, -10783>>,
    <<11376, 11376, 1, -10782>>, <<11378, 11378, 1, 1>>,
    <<11381, 11381, 1, 1>>, <<11390, 11391, 1, -10815>>,
    <<11392, 11490, 2, 1>>, <<11499, 11501, 2, 1>>, <<11506, 11506, 1, 1>>,
    <<42560, 42604, 2, 1>>, <<42624, 42650, 2, 1>>, <<42786, 42798, 2, 1>>,
    <<42802, 42862, 2, 1>>, <<42873, 42875, 2, 1>>,
    <<42877, 42877, 1, -35332>>, <<42878, 42886, 2, 1>>,
    <<42891, 42891, 1, 1>>, <<42893, 42893, 1, -42280>>,
    <<42896, 42898, 2, 1>>, <<42902, 42920, 2, 1>>,
    <<42922, 42922, 1, -42308>>, <<42923, 42923, 1, -42319>>,
    <<42924, 42924, 1, -42315>>, <<42925, 42925, 1, -42305>>,
    <<42926, 42926, 1, -42308>>, <<42928, 42928, 1, -42258>>,
    <<42929, 42929, 1, -42282>>, <<42930, 42930, 1, -42261>>,
    <<42931, 42931, 1, 928>>, <<42932, 42946, 2, 1>>,
    <<42948, 42948, 1, -48>>, <<42949, 42949, 1, -42307>>,
    <<42950, 42950, 1, -35384>>, <<42951, 42953, 2, 1>>,
    <<42960, 42960, 1, 1>>, <<42966, 42968, 2, 1>>, <<42997, 42997, 1, 1>>,
    <<65313, 65338, 1, 32>>, <<66560, 66599, 1, 40>>,
    <<66736, 66771, 1, 40>>, <<66928, 66964, 2, 39>>,
    <<66929, 66937, 2, 39>>, <<66941, 66953, 2, 39>>,
    <<66957, 66961, 2, 39>>, <<66965, 66965, 1, 39>>,
    <<68736, 68786, 1, 64>>, <<71840, 71871, 1, 32>>,
    <<93760, 93791, 1, 32>>, <<125184, 125217, 1, 34>>}

\* the code points with the property Cased, as ranges <<first, last>>
CasedRanges ==
  {<<65, 90>>, <<97, 122>>, <<170, 170>>, <<181, 181>>, <<186, 186>>,
    <<192, 214>>, <<216, 246>>, <<248, 442>>, <<444, 447>>, <<452, 659>>,
    <<661, 696>>, <<704, 705>>, <<736, 740>>, <<837, 837>>, <<880, 883>>,
    <<886, 887>>, <<890, 893>>, <<895, 895>>, <<902, 902>>, <<904, 906>>,
    <<908, 908>>, <<910, 929>>, <<931, 1013>>, <<1015, 1153>>,
    <<1162, 1327>>, <<1329, 1366>>, <<1376, 1416>>, <<4256, 4293>>,
    <<4295, 4295>>, <<4301, 4301>>, <<4304, 4346>>, <<4349, 4351>>,
    <<5024, 5109>>, <<5112, 5117>>, <<7296, 7304>>, <<7312, 7354>>,
    <<7357, 7359>>, <<7424, 7615>>, <<7680, 7957>>, <<7960, 7965>>,
    <<7968, 8005>>, <<8008, 8013>>, <<8016, 8023>>, <<8025, 8025>>,
    <<8027, 8027>>, <<8029, 8029>>, <<8031, 8061>>, <<8064, 8116>>,
    <<8118, 8124>>, <<8126, 8126>>, <<8130, 8132>>, <<8134, 8140>>,
    <<8144, 8147>>, <<8150, 8155>>, <<8160, 8172>>, <<8178, 8180>>,
    <<8182, 8188>>, <<8305, 8305>>, <<8319, 8319>>, <<8336, 8348>>,
    <<8450, 8450>>, <<8455, 8455>>, <<8458, 8467>>, <<8469, 8469>>,
    <<8473, 8477>>, <<8484, 8484>>, <<8486, 8486>>, <<8488, 8488>>,
    <<8490, 8493>>, <<8495, 8500>>, <<8505, 8505>>, <<8508, 8511>>,
    <<8517, 8521>>, <<8526, 8526>>, <<8544, 8575>>, <<8579, 8580>>,
    <<9398, 9449>>, <<11264, 11492>>, <<11499, 11502>>, <<11506, 11507>>,
    <<11520, 11557>>, <<11559, 11559>>, <<11565, 11565>>, <<42560, 42605>>,
    <<42624, 42653>>, <<42786, 42887>>, <<42891, 42894>>, <<42896, 42954>>,
    <<42960, 42961>>, <<42963, 42963>>, <<42965, 42969>>, <<42997, 42998>>,
    <<43000, 43002>>, <<43824, 43866>>, <<43868, 43880>>, <<43888, 43967>>,
    <<64256, 64262>>, <<64275, 64279>>, <<65313, 65338>>, <<65345, 65370>>,
    <<66560, 66639>>, <<66736, 66771>>, <<66776, 66811>>, <<66928, 66938>>,
    <<66940, 66954>>, <<66956, 66962>>, <<66964, 66965>>, <<66967, 66977>>,
    <<66979, 66993>>, <<66995, 67001>>, <<67003, 67004>>, <<67456, 67456>>,
    <<67459, 67461>>, <<67463, 67504>>, <<67506, 67514>>, <<68736, 68786>>,
    <<68800, 68850>>, <<71840, 71903>>, <<93760, 93823>>,
    <<119808, 119892>>, <<119894, 119964>>, <<119966, 119967>>,
    <<119970, 119970>>, <<119973, 119974>>, <<119977, 119980>>,
    <<119982, 119993>>, <<119995, 119995>>, <<119997, 120003>>,
    <<120005, 120069>>, <<120071, 120074>>, <<120077, 120084>>,
    <<120086, 120092>>, <<120094, 120121>>, <<120123, 120126>>,
    <<120128, 120132>>, <<120134, 120134>>, <<120138, 120144>>,
    <<120146, 120485>>, <<120488, 120512>>, <<120514, 120538>>,
    <<120540, 120570>>, <<120572, 120596>>, <<120598, 120628>>,
    <<120630, 120654>>, <<120656, 120686>>, <<120688, 120712>>,
    <<120714, 120744>>, <<120746, 120770>>, <<120772, 120779>>,
    <<122624, 122633>>, <<122635, 122654>>, <<125184, 125251>>,
    <<127280, 127305>>, <<127312, 127337>>, <<127344, 127369>>}

\* the code points with the property Case_Ignorable, as ranges <<first, last>>
CaseIgnorableRanges ==
  {<<39, 39>>, <<46, 46>>, <<58, 58>>, <<94, 94>>, <<96, 96>>,
    <<168, 168>>, <<173, 173>>, <<175, 175>>, <<180, 180>>, <<183, 184>>,
    <<688, 879>>, <<884, 885>>, <<890, 890>>, <<900, 901>>, <<903, 903>>,
    <<1155, 1161>>, <<1369, 1369>>, <<1375, 1375>>, <<1425, 1469>>,
    <<1471, 1471>>, <<1473, 1474>>, <<1476, 1477>>, <<1479, 1479>>,
    <<1524, 1524>>, <<1536, 1541>>, <<1552, 1562>>, <<1564, 1564>>,
    <<1600, 1600>>, <<1611, 1631>>, <<1648, 1648>>, <<1750, 1757>>,
    <<1759, 1768>>, <<1770, 1773>>, <<1807, 1807>>, <<1809, 1809>>,
    <<1840, 1866>>, <<1958, 1968>>, <<2027, 2037>>, <<2042, 2042>>,
    <<2045, 2045>>, <<2070, 2093>>, <<2137, 2139>>, <<2184, 2184>>,
    <<2192, 2193>>, <<2200, 2207>>, <<2249, 2306>>, <<2362, 2362>>,
    <<2364, 2364>>, <<2369, 2376>>, <<2381, 2381>>, <<2385, 2391>>,
    <<2402, 2403>>, <<2417, 2417>>, <<2433, 2433>>, <<2492, 2492>>,
    <<2497, 2500>>, <<2509, 2509>>, <<2530, 2531>>, <<2558, 2558>>,
    <<2561, 2562>>, <<2620, 2620>>, <<2625, 2626>>, <<2631, 2632>>,
    <<2635, 2637>>, <<2641, 2641>>, <<2672, 2673>>, <<2677, 2677>>,
    <<2689, 2690>>, <<2748, 2748>>, <<2753, 2757>>, <<2759, 2760>>,
    <<2765, 2765>>, <<2786, 2787>>, <<2810, 2815>>, <<2817, 2817>>,
    <<2876, 2876>>, <<2879, 2879>>, <<2881, 2884>>, <<2893, 2893>>,
    <<2901, 2902>>, <<2914, 2915>>, <<2946, 2946>>, <<3008, 3008>>,
    <<3021, 3021>>, <<3072, 3072>>, <<3076, 3076>>, <<3132, 3132>>,
    <<3134, 3136>>, <<3142, 3144>>, <<3146, 3149>>, <<3157, 3158>>,
    <<3170, 3171>>, <<3201, 3201>>, <<3260, 3260>>, <<3263, 3263>>,
    <<3270, 3270>>, <<3276, 3277>>, <<3298, 3299>>, <<3328, 3329>>,
    <<3387, 3388>>, <<3393, 3396>>, <<3405, 3405>>, <<3426, 3427>>,
    <<3457, 3457>>, <<3530, 3530>>, <<3538, 3540>>, <<3542, 3542>>,
    <<3633, 3633>>, <<3636, 3642>>, <<3654, 3662>>, <<3761, 3761>>,
    <<3764, 3772>>, <<3782, 3782>>, <<3784, 3789>>, <<3864, 3865>>,
    <<3893, 3893>>, <<3895, 3895>>, <<3897, 3897>>, <<3953, 3966>>,
    <<3968, 3972>>, <<3974, 3975>>, <<3981, 3991>>, <<3993, 4028>>,
    <<4038, 4038>>, <<4141, 4144>>, <<4146, 4151>>, <<4153, 4154>>,
    <<4157, 4158>>, <<4184, 4185>>, <<4190, 4192>>, <<4209, 4212>>,
    <<4226, 4226>>, <<4229, 4230>>, <<4237, 4237>>, <<4253, 4253>>,
    <<4348, 4348>>, <<4957, 4959>>, <<5906, 5908>>, <<5938, 5939>>,
    <<5970, 5971>>, <<6002, 6003>>, <<6068, 6069>>, <<6071, 6077>>,
    <<6086, 6086>>, <<6089, 6099>>, <<6103, 6103>>, <<6109, 6109>>,
    <<6155, 6159>>, <<6211, 6211>>, <<6277, 6278>>, <<6313, 6313>>,
    <<6432, 6434>>, <<6439, 6440>>, <<6450, 6450>>, <<6457, 6459>>,
    <<6679, 6680>>, <<6683, 6683>>, <<6742, 6742>>, <<6744, 6750>>,
    <<6752, 6752>>, <<6754, 6754>>, <<6757, 6764>>, <<6771, 6780>>,
    <<6783, 6783>>, <<6823, 6823>>, <<6832, 6862>>, <<6912, 6915>>,
    <<6964, 6964>>, <<6966, 6970>>, <<6972, 6972>>, <<6978, 6978>>,
    <<7019, 7027>>, <<7040, 7041>>, <<7074, 7077>>, <<7080, 7081>>,
    <<7083, 7085>>, <<7142, 7142>>, <<7144, 7145>>, <<7149, 7149>>,
    <<7151, 7153>>, <<7212, 7219>>, <<7222, 7223>>, <<7288, 7293>>,
    <<7376, 7378>>, <<7380, 7392>>, <<7394, 7400>>, <<7405, 7405>>,
    <<7412, 7412>>, <<7416, 7417>>, <<7468, 7530>>, <<7544, 7544>>,
    <<7579, 7679>>, <<8125, 8125>>, <<8127, 8129>>, <<8141, 8143>>,
    <<8157, 8159>>, <<8173, 8175>>, <<8189, 8190>>, <<8203, 8207>>,
    <<8216, 8217>>, <<8228, 8228>>, <<8231, 8231>>, <<8234, 8238>>,
    <<8288, 8292>>, <<8294, 8303>>, <<8305, 8305>>, <<8319, 8319>>,
    <<8336, 8348>>, <<8400, 8432>>, <<11388, 11389>>, <<11503, 11505>>,
    <<11631, 11631>>, <<11647, 11647>>, <<11744, 11775>>, <<11823, 11823>>,
    <<12293, 12293>>, <<12330, 12333>>, <<12337, 12341>>, <<12347, 12347>>,
    <<12441, 12446>>, <<12540, 12542>>, <<40981, 40981>>, <<42232, 42237>>,
    <<42508, 42508>>, <<42607, 42610>>, <<42612, 42621>>, <<42623, 42623>>,
    <<42652, 42655>>, <<42736, 42737>>, <<42752, 42785>>, <<42864, 42864>>,
    <<42888, 42890>>, <<42994, 42996>>, <<43000, 43001>>, <<43010, 43010>>,
    <<43014, 43014>>, <<43019, 43019>>, <<43045, 43046>>, <<43052, 43052>>,
    <<43204, 43205>>, <<43232, 43249>>, <<43263, 43263>>, <<43302, 43309>>,
    <<43335, 43345>>, <<43392, 43394>>, <<43443, 43443>>, <<43446, 43449>>,
    <<43452, 43453>>, <<43471, 43471>>, <<43493, 43494>>, <<43561, 43566>>,
    <<43569, 43570>>, <<43573, 43574>>, <<43587, 43587>>, <<43596, 43596>>,
    <<43632, 43632>>, <<43644, 43644>>, <<43696, 43696>>, <<43698, 43700>>,
    <<43703, 43704>>, <<43710, 43711>>, <<43713, 43713>>, <<43741, 43741>>,
    <<43756, 43757>>, <<43763, 43764>>, <<43766, 43766>>, <<43867, 43871>>,
    <<43881, 43883>>, <<44005, 44005>>, <<44008, 44008>>, <<44013, 44013>>,
    <<64286, 64286>>, <<64434, 64450>>, <<65024, 65039>>, <<65043, 65043>>,
    <<65056, 65071>>, <<65106, 65106>>, <<65109, 65109>>, <<65279, 65279>>,
    <<65287, 65287>>, <<65294, 65294>>, <<65306, 65306>>, <<65342, 65342>>,
    <<65344, 65344>>, <<65392, 65392>>, <<65438, 65439>>, <<65507, 65507>>,
    <<65529, 65531>>, <<66045, 66045>>, <<66272, 66272>>, <<66422, 66426>>,
    <<67456, 67461>>, <<67463, 67504>>, <<67506, 67514>>, <<68097, 68099>>,
    <<68101, 68102>>, <<68108, 68111>>, <<68152, 68154>>, <<68159, 68159>>,
    <<68325, 68326>>, <<68900, 68903>>, <<69291, 69292>>, <<69446, 69456>>,
    <<69506, 69509>>, <<69633, 69633>>, <<69688, 69702>>, <<69744, 69744>>,
    <<69747, 69748>>, <<69759, 69761>>, <<69811, 69814>>, <<69817, 69818>>,
    <<69821, 69821>>, <<69826, 69826>>, <<69837, 69837>>, <<69888, 69890>>,
    <<69927, 69931>>, <<69933, 69940>>, <<70003, 70003>>, <<70016, 70017>>,
    <<70070, 70078>>, <<70089, 70092>>, <<70095, 70095>>, <<70191, 70193>>,
    <<70196, 70196>>, <<70198, 70199>>, <<70206, 70206>>, <<70367, 70367>>,
    <<70371, 70378>>, <<70400, 70401>>, <<70459, 70460>>, <<70464, 70464>>,
    <<70502, 70508>>, <<70512, 70516>>, <<70712, 70719>>, <<70722, 70724>>,
    <<70726, 70726>>, <<70750, 70750>>, <<70835, 70840>>, <<70842, 70842>>,
    <<70847, 70848>>, <<70850, 70851>>, <<71090, 71093>>, <<71100, 71101>>,
    <<71103, 71104>>, <<71132, 71133>>, <<71219, 71226>>, <<71229, 71229>>,
    <<71231, 71232>>, <<71339, 71339>>, <<71341, 71341>>, <<71344, 71349>>,
    <<71351, 71351>>, <<71453, 71455>>, <<71458, 71461>>, <<71463, 71467>>,
    <<71727, 71735>>, <<71737, 71738>>, <<71995, 71996>>, <<71998, 71998>>,
    <<72003, 72003>>, <<72148, 72151>>, <<72154, 72155>>, <<72160, 72160>>,
    <<72193, 72202>>, <<72243, 72248>>, <<72251, 72254>>, <<72263, 72263>>,
    <<72273, 72278>>, <<72281, 72283>>, <<72330, 72342>>, <<72344, 72345>>,
    <<72752, 72758>>, <<72760, 72765>>, <<72767, 72767>>, <<72850, 72871>>,
    <<72874, 72880>>, <<72882, 72883>>, <<72885, 72886>>, <<73009, 73014>>,
    <<73018, 73018>>, <<73020, 73021>>, <<73023, 73029>>, <<73031, 73031>>,
    <<73104, 73105>>, <<73109, 73109>>, <<73111, 73111>>, <<73459, 73460>>,
    <<78896, 78904>>, <<92912, 92916>>, <<92976, 92982>>, <<92992, 92995>>,
    <<94031, 94031>>, <<94095, 94111>>, <<94176, 94177>>, <<94179, 94180>>,
    <<110576, 110579>>, <<110581, 110587>>, <<110589, 110590>>,
    <<113821, 113822>>, <<113824, 113827>>, <<118528, 118573>>,
    <<118576, 118598>>, <<119143, 119145>>, <<119155, 119170>>,
    <<119173, 119179>>, <<119210, 119213>>, <<119362, 119364>>,
    <<121344, 121398>>, <<121403, 121452>>, <<121461, 121461>>,
    <<121476, 121476>>, <<121499, 121503>>, <<121505, 121519>>,
    <<122880, 122886>>, <<122888, 122904>>, <<122907, 122913>>,
    <<122915, 122916>>, <<122918, 122922>>, <<123184, 123197>>,
    <<123566, 123566>>, <<123628, 123631>>, <<125136, 125142>>,
    <<125252, 125259>>, <<127995, 127999>>, <<917505, 917505>>,
    <<917536, 917631>>, <<917760, 917999>>}

InRanges(cp, ranges) == \E r \in ranges : r[1] <= cp /\ cp <= r[2]

Cased(c) == InRanges(ord(c), CasedRanges)

CaseIgnorable(c) == InRanges(ord(c), CaseIgnorableRanges)

GREEK_CAPITAL_LETTER_SIGMA == "U+03A3"
GREEK_SMALL_LETTER_FINAL_SIGMA == "U+03C2"
GREEK_SMALL_LETTER_SIGMA == "U+03C3"
LATIN_CAPITAL_LETTER_I_WITH_DOT_ABOVE == "U+0130"
COMBINING_DOT_ABOVE == "U+0307"
KELVIN_SIGN == "U+212A"

\* the lower-case mapping of one character, whatever is around it: an ASCII
\* capital has its small letter 32 above it, U+0130 becomes two characters,
\* a character the database gives no mapping is left as it is
LowerChar(c) ==
  LET cp == ord(c)
  IN  IF Len(c) = 1
      THEN IF c \in AsciiCapitals THEN <<chr(cp + 32)>> ELSE <<c>>
      ELSE IF c = LATIN_CAPITAL_LETTER_I_WITH_DOT_ABOVE THEN <<"i", COMBINING_DOT_ABOVE>>
      ELSE IF \E r \in LowerRanges :
                r[1] <= cp /\ cp <= r[2] /\ (cp - r[1]) % r[3] = 0
        THEN LET r == CHOOSE r \in LowerRanges :
                        r[1] <= cp /\ cp <= r[2] /\ (cp - r[1]) % r[3] = 0
             IN  <<chr(cp + r[4])>>
        ELSE <<c>>

\* the capital sigma s[i] is the last letter of a word: a cased character
\* is before it, and none after it, case-ignorable characters apart
FinalSigma(s, i) ==
  /\ \E j \in 1..(i - 1) :
        /\ ~CaseIgnorable(s[j])
        /\ Cased(s[j])
        /\ \A k \in (j + 1)..(i - 1) : CaseIgnorable(s[k])
  /\ ~\E j \in (i + 1)..Len(s) :
        /\ ~CaseIgnorable(s[j])
        /\ Cased(s[j])
        /\ \A k \in (i + 1)..(j - 1) : CaseIgnorable(s[k])

\* the characters s[i] becomes in s.lower()
LowerAt(s, i) ==
  IF s[i] = GREEK_CAPITAL_LETTER_SIGMA
  THEN IF FinalSigma(s, i) THEN <<GREEK_SMALL_LETTER_FINAL_SIGMA>>
       ELSE <<GREEK_SMALL_LETTER_SIGMA>>
  ELSE LowerChar(s[i])

\* the characters s[first..last] become
RECURSIVE LowerFrom(_, _, _)
LowerFrom(s, first, last) ==
  IF first > last THEN <<>>
  ELSE IF first = last THEN LowerAt(s, first)
  ELSE LowerFrom(s, first, (first + last) \div 2)
         \o LowerFrom(s, ((first + last) \div 2) + 1, last)

\* str.lower()
Lower(s) == LowerFrom(s, 1, Len(s))

\* needle in hay
Contains(hay, needle) ==
  \E i \in 0..(Len(hay) - Len(needle)) :
     SubSeq(hay, i + 1, i + Len(needle)) = needle

\* any(keyword in s for keyword in kws)
AnyIn(s, kws) == \E k \in kws : Contains(s, k)

\* dict.get(key, default)
Get(d, k, default) == IF k \in DOMAIN d THEN d[k] ELSE default

\* the empty dict
EmptyDict == [k \in {} |-> 0]

\* None, as the value of dict.get(key) for a missing key
None == <<"<None>">>

S_timeout == <<"t","i","m","e","o","u","t">>
S_mcp_server == <<"m","c","p","_","s","e","r","v","e","r">>
S_unknown == <<"u","n","k","n","o","w","n">>

\* the keyword lists of categorize_error
ConnectionNames ==
  { <<"c","o","n","n","e","c","t","i","o","n">>, <<"n","e","t","w","o","r","k">>,
    <<"s","o","c","k","e","t">> }
ConnectionMessages ==
  { <<"c","o","n","n","e","c","t","i","o","n"," ","r","e","f","u","s","e","d">>,
    <<"n","e","t","w","o","r","k"," ","u","n","r","e","a","c","h","a","b","l","e">>,
    S_timeout }
AuthenticationNames ==
  { <<"a","u","t","h">>, <<"p","e","r","m","i","s","s","i","o","n">>,
    <<"a","c","c","e","s","s">> }
AuthenticationMessages ==
  { <<"u","n","a","u","t","h","o","r","i","z","e","d">>,
    <<"f","o","r","b","i","d","d","e","n">>,
    <<"i","n","v","a","l","i","d"," ","t","o","k","e","n">>,
    <<"a","p","i"," ","k","e","y">> }
RateLimitMessages ==
  { <<"r","a","t","e"," ","l","i","m","i","t">>,
    <<"t","o","o"," ","m","a","n","y"," ","r","e","q","u","e","s","t","s">>,
    <<"4","2","9">> }
ValidationNames ==
  { <<"v","a","l","i","d","a","t","i","o","n">>, <<"v","a","l","u","e">>,
    <<"t","y","p","e">> }
SystemResourceNames ==
  { <<"m","e","m","o","r","y">>, <<"d","i","s","k">>,
    <<"r","e","s","o","u","r","c","e">> }

\* the strings of the inputs
S_Error == <<"E","r","r","o","r">>
S_MemoryError == <<"M","e","m","o","r","y">> \o S_Error
S_ValueError == <<"V","a","l","u","e">> \o S_Error
S_Exception == <<"E","x","c","e","p","t","i","o","n">>
S_oom == <<"o","o","m">>
S_bad_value == <<"b","a","d"," ","v","a","l","u","e">>
S_down == <<"d","o","w","n">>
S_f == <<"f">>
S_s1 == <<"s","1">>

(***************************************************************************)
(* ErrorCategory, AlertSeverity (the enums' values).                       *)
(***************************************************************************)
CONNECTION == "connection"
AUTHENTICATION == "authentication"
TIMEOUT == "timeout"
RATE_LIMIT == "rate_limit"
VALIDATION == "validation"
SYSTEM_RESOURCE == "system_resource"
MCP_SERVER == "mcp_server"
UNKNOWN == "unknown"

LOW == "low"
MEDIUM == "medium"
HIGH == "high"
CRITICAL == "critical"

(***************************************************************************)
(* ErrorTracker: the pure functions.                                       *)
(* An exception is [type |-> type(e).__name__, msg |-> str(e)].            *)
(***************************************************************************)
categorize_error(exception, context) ==
  LET exception_name == Lower(exception.type)
      error_message == Lower(exception.msg)
  IN  IF AnyIn(exception_name, ConnectionNames) THEN CONNECTION
      ELSE IF AnyIn(error_message, ConnectionMessages) THEN CONNECTION
      ELSE IF AnyIn(exception_name, AuthenticationNames) THEN AUTHENTICATION
      ELSE IF AnyIn(error_message, AuthenticationMessages) THEN AUTHENTICATION
      ELSE IF Contains(exception_name, S_timeout) \/ Contains(error_message, S_timeout)
        THEN TIMEOUT
      ELSE IF AnyIn(error_message, RateLimitMessages) THEN RATE_LIMIT
      ELSE IF AnyIn(exception_name, ValidationNames) THEN VALIDATION
      ELSE IF AnyIn(exception_name, SystemResourceNames) THEN SYSTEM_RESOURCE
      ELSE IF Get(context, "source", None) = S_mcp_server THEN MCP_SERVER
      ELSE UNKNOWN

determine_severity_CountFirst(category, error_count, context) ==
  IF error_count > 10 THEN MEDIUM
  ELSE IF category = SYSTEM_RESOURCE THEN CRITICAL
  ELSE LOW

determine_severity(category, error_count, context) ==
  IF category = SYSTEM_RESOURCE THEN CRITICAL
  ELSE IF category = MCP_SERVER /\ error_count > 3 THEN HIGH
  ELSE IF category \in {CONNECTION, TIMEOUT} /\ error_count > 5 THEN HIGH
  ELSE IF error_count > 10 THEN MEDIUM
  ELSE LOW

(***************************************************************************)
(* hashlib.md5: the MD5 message digest (RFC 1321).  A word of 32 bits is   *)
(* <<high, low>>, its two halves of 16 bits.  Intermediate values are      *)
(* bound one after the other (x \in {e}), and the steps and the blocks     *)
(* are done by halves, which keeps the evaluation shallow.                 *)
(***************************************************************************)
HalfBase == 65536

\* 2^0, 2^1, ..., 2^16
PowersOfTwo ==
  <<1, 2, 4, 8, 16, 32, 64, 128, 256, 512, 1024, 2048, 4096, 8192, 16384, 32768, 65536>>

\* a & b of two numbers of four bits: NibbleAnd[a + 1][b + 1]
NibbleAnd ==
  <<<<0, 0, 0, 0, 0, 0, 0, 0, 0, 0, 0, 0, 0, 0, 0, 0>>,
    <<0, 1, 0, 1, 0, 1, 0, 1, 0, 1, 0, 1, 0, 1, 0, 1>>,
    <<0, 0, 2, 2, 0, 0, 2, 2, 0, 0, 2, 2, 0, 0, 2, 2>>,
    <<0, 1, 2, 3, 0, 1, 2, 3, 0, 1, 2, 3, 0, 1, 2, 3>>,
    <<0, 0, 0, 0, 4, 4, 4, 4, 0, 0, 0, 0, 4, 4, 4, 4>>,
    <<0, 1, 0, 1, 4, 5, 4, 5, 0, 1, 0, 1, 4, 5, 4, 5>>,
    <<0, 0, 2, 2, 4, 4, 6, 6, 0, 0, 2, 2, 4, 4, 6, 6>>,
    <<0, 1, 2, 3, 4, 5, 6, 7, 0, 1, 2, 3, 4, 5, 6, 7>>,
    <<0, 0, 0, 0, 0, 0, 0, 0, 8, 8, 8, 8, 8, 8, 8, 8>>,
    <<0, 1, 0, 1, 0, 1, 0, 1, 8, 9, 8, 9, 8, 9, 8, 9>>,
    <<0, 0, 2, 2, 0, 0, 2, 2, 8, 8, 10, 10, 8, 8, 10, 10>>,
    <<0, 1, 2, 3, 0, 1, 2, 3, 8, 9, 10, 11, 8, 9, 10, 11>>,
    <<0, 0, 0, 0, 4, 4, 4, 4, 8, 8, 8, 8, 12, 12, 12, 12>>,
    <<0, 1, 0, 1, 4, 5, 4, 5, 8, 9, 8, 9, 12, 13, 12, 13>>,
    <<0, 0, 2, 2, 4, 4, 6, 6, 8, 8, 10, 10, 12, 12, 14, 14>>,
    <<0, 1, 2, 3, 4, 5, 6, 7, 8, 9, 10, 11, 12, 13, 14, 15>>>>

\* a & b of two numbers of 16 bits
And16(a, b) ==
  NibbleAnd[(a % 16) + 1][(b % 16) + 1]
    + 16 * NibbleAnd[((a \div 16) % 16) + 1][((b \div 16) % 16) + 1]
    + 256 * NibbleAnd[((a \div 256) % 16) + 1][((b \div 256) % 16) + 1]
    + 4096 * NibbleAnd[(a \div 4096) + 1][(b \div 4096) + 1]

And32(x, y) == <<And16(x[1], y[1]), And16(x[2], y[2])>>

Or32(x, y) == <<x[1] + y[1] - And16(x[1], y[1]), x[2] + y[2] - And16(x[2], y[2])>>

Xor32(x, y) ==
  <<x[1] + y[1] - 2 * And16(x[1], y[1]), x[2] + y[2] - 2 * And16(x[2], y[2])>>

Not32(x) == <<HalfBase - 1 - x[1], HalfBase - 1 - x[2]>>

\* addition modulo 2^32
Add32(x, y) ==
  <<(x[1] + y[1] + ((x[2] + y[2]) \div HalfBase)) % HalfBase, (x[2] + y[2]) % HalfBase>>

\* the word rotated left by n bits, 0 < n < 32
RotateLeft(x, n) ==
  LET high == IF n >= 16 THEN x[2] ELSE x[1]
      low == IF n >= 16 THEN x[1] ELSE x[2]
      up == PowersOfTwo[(n % 16) + 1]
      down == PowersOfTwo[17 - (n % 16)]
  IN  <<((high * up) % HalfBase) + (low \div down),
        ((low * up) % HalfBase) + (high \div down)>>

\* the shift of each of the 64 steps
MD5Shifts ==
  <<7, 12, 17, 22, 7, 12, 17, 22, 7, 12, 17, 22, 7, 12, 17, 22,
    5, 9, 14, 20, 5, 9, 14, 20, 5, 9, 14, 20, 5, 9, 14, 20,
    4, 11, 16, 23, 4, 11, 16, 23, 4, 11, 16, 23, 4, 11, 16, 23,
    6, 10, 15, 21, 6, 10, 15, 21, 6, 10, 15, 21, 6, 10, 15, 21>>

\* the constant of each step: floor(2^32 * abs(sin(i))), i = 1..64
MD5Sines ==
  <<<<55146, 42104>>, <<59591, 46934>>, <<9248, 28891>>, <<49597, 52974>>,
    <<62844, 4015>>, <<18311, 50730>>, <<43056, 17939>>, <<64838, 38145>>,
    <<27008, 39128>>, <<35652, 63407>>, <<65535, 23473>>, <<35164, 55230>>,
    <<27536, 4386>>, <<64920, 29075>>, <<42617, 17294>>, <<18868, 2081>>,
    <<63006, 9570>>, <<49216, 45888>>, <<9822, 23121>>, <<59830, 51114>>,
    <<54831, 4189>>, <<580, 5203>>, <<55457, 59009>>, <<59347, 64456>>,
    <<8673, 52710>>, <<49975, 2006>>, <<62677, 3463>>, <<17754, 5357>>,
    <<43491, 59653>>, <<64751, 41976>>, <<26479, 729>>, <<36138, 19594>>,
    <<65530, 14658>>, <<34673, 63105>>, <<28061, 24866>>, <<64997, 14348>>,
    <<42174, 59972>>, <<19422, 53161>>, <<63163, 19296>>, <<48831, 48240>>,
    <<10395, 32454>>, <<60065, 10234>>, <<54511, 12421>>, <<1160, 7429>>,
    <<55764, 53305>>, <<59099, 39397>>, <<8098, 31992>>, <<50348, 22117>>,
    <<62505, 8772>>, <<17194, 65431>>, <<43924, 9127>>, <<64659, 41017>>,
    <<25947, 22979>>, <<36620, 52370>>, <<65519, 62589>>, <<34180, 24017>>,
    <<28584, 32335>>, <<65068, 59104>>, <<41729, 17172>>, <<19976, 4513>>,
    <<63315, 32386>>, <<48442, 62005>>, <<10967, 53947>>, <<60294, 54161>>>>

\* the chaining value a digest starts from
MD5Start == <<<<26437, 8961>>, <<61389, 43913>>, <<39098, 56574>>, <<4146, 21622>>>>

\* the auxiliary function of step i (counted from 0)
MD5Mix(i, b, c, d) ==
  IF i < 16 THEN Or32(And32(b, c), And32(Not32(b), d))
  ELSE IF i < 32 THEN Or32(And32(d, b), And32(Not32(d), c))
  ELSE IF i < 48 THEN Xor32(Xor32(b, c), d)
  ELSE Xor32(c, Or32(b, Not32(d)))

\* the word of the block step i reads
MD5Index(i) ==
  IF i < 16 THEN i
  ELSE IF i < 32 THEN (5 * i + 1) % 16
  ELSE IF i < 48 THEN (3 * i + 5) % 16
  ELSE (7 * i) % 16

\* step i on the chaining value v = <<a, b, c, d>>, words being the 16 words
\* of the block
MD5Step(v, words, i) ==
  CHOOSE after \in
    {<<v[4], Add32(v[2], turned), v[2], v[3]>> :
       turned \in
         {RotateLeft(f, MD5Shifts[i + 1]) :
            f \in {Add32(mixed, Add32(MD5Sines[i + 1], words[MD5Index(i) + 1])) :
                     mixed \in {Add32(mix, v[1]) :
                                  mix \in {MD5Mix(i, v[2], v[3], v[4])}}}}} : TRUE

\* steps first to last, one after the other
RECURSIVE MD5Steps(_, _, _, _)
MD5Steps(v, words, first, last) ==
  IF first = last THEN MD5Step(v, words, first)
  ELSE CHOOSE after \in
         {MD5Steps(half, words, ((first + last) \div 2) + 1, last) :
            half \in {MD5Steps(v, words, first, (first + last) \div 2)}} : TRUE

\* the word of the four bytes from position p on, the least significant first
WordOf(bytes, p) ==
  <<bytes[p + 2] + 256 * bytes[p + 3], bytes[p] + 256 * bytes[p + 1]>>

\* the 16 words of the k-th block of 64 bytes
BlockWords(bytes, k) ==
  LET p == 64 * (k - 1)
  IN  <<WordOf(bytes, p + 1), WordOf(bytes, p + 5), WordOf(bytes, p + 9),
        WordOf(bytes, p + 13), WordOf(bytes, p + 17), WordOf(bytes, p + 21),
        WordOf(bytes, p + 25), WordOf(bytes, p + 29), WordOf(bytes, p + 33),
        WordOf(bytes, p + 37), WordOf(bytes, p + 41), WordOf(bytes, p + 45),
        WordOf(bytes, p + 49), WordOf(bytes, p + 53), WordOf(bytes, p + 57),
        WordOf(bytes, p + 61)>>

\* the message padded to a multiple of 64 bytes: a byte 0x80, zero bytes, and
\* the length of the message in bits as 8 bytes, the least significant first
MD5Padded(bytes) ==
  LET zeros == (119 - (Len(bytes) % 64)) % 64
      bits == 8 * Len(bytes)
  IN  bytes \o <<128>> \o [i \in 1..zeros |-> 0]
        \o <<bits % 256, (bits \div 256) % 256, (bits \div 65536) % 256,
             bits \div 16777216, 0, 0, 0, 0>>

\* the chaining value after the k-th block
MD5Block(v, bytes, k) ==
  CHOOSE sum \in
    {<<Add32(v[1], w[1]), Add32(v[2], w[2]), Add32(v[3], w[3]), Add32(v[4], w[4])>> :
       w \in {MD5Steps(v, words, 0, 63) : words \in {BlockWords(bytes, k)}}} : TRUE

\* blocks first to last, one after the other
RECURSIVE MD5Blocks(_, _, _, _)
MD5Blocks(v, bytes, first, last) ==
  IF first = last THEN MD5Block(v, bytes, first)
  ELSE CHOOSE after \in
         {MD5Blocks(half, bytes, ((first + last) \div 2) + 1, last) :
            half \in {MD5Blocks(v, bytes, first, (first + last) \div 2)}} : TRUE

\* the four bytes of a word, the least significant first
WordBytes(x) == <<x[2] % 256, x[2] \div 256, x[1] % 256, x[1] \div 256>>

\* hashlib.md5(bytes).digest()
md5(bytes) ==
  CHOOSE digest \in
    {WordBytes(v[1]) \o WordBytes(v[2]) \o WordBytes(v[3]) \o WordBytes(v[4]) :
       v \in {MD5Blocks(MD5Start, padded, 1, Len(padded) \div 64) :
                padded \in {MD5Padded(bytes)}}} : TRUE

LowerHexDigits == <<"0","1","2","3","4","5","6","7","8","9","a","b","c","d","e","f">>

\* .hexdigest(): two digits a byte
hexdigest(digest) ==
  [i \in 1..(2 * Len(digest)) |->
     IF i % 2 = 1 THEN LowerHexDigits[(digest[(i + 1) \div 2] \div 16) + 1]
     ELSE LowerHexDigits[(digest[i \div 2] % 16) + 1]]

\* what a call gives: the value it returns, or the exception it raises
Result(value) == [result |-> value]

Error(exception) == [error |-> exception]

IsError(outcome) == "error" \in DOMAIN outcome

UnicodeEncodeError == "UnicodeEncodeError"

\* a code point U+D800..U+DFFF: half of a surrogate pair, which a Python str
\* can hold on its own and UTF-8 cannot encode
Surrogate(c) == 55296 <= ord(c) /\ ord(c) <= 57343

\* the UTF-8 bytes of a character ("surrogates not allowed")
Utf8(c) ==
  LET cp == ord(c)
  IN  IF Surrogate(c) THEN Error(UnicodeEncodeError)
      ELSE IF cp < 128 THEN Result(<<cp>>)
      ELSE IF cp < 2048 THEN Result(<<192 + (cp \div 64), 128 + (cp % 64)>>)
      ELSE IF cp < 65536
        THEN Result(<<224 + (cp \div 4096), 128 + ((cp \div 64) % 64), 128 + (cp % 64)>>)
      ELSE Result(<<240 + (cp \div 262144), 128 + ((cp \div 4096) % 64),
                    128 + ((cp \div 64) % 64), 128 + (cp % 64)>>)

\* the bytes of the characters s[first..last], or the error of the first of
\* them that cannot be encoded
RECURSIVE EncodeFrom(_, _, _)
EncodeFrom(s, first, last) ==
  IF first > last THEN Result(<<>>)
  ELSE IF first = last THEN Utf8(s[first])
  ELSE LET head == EncodeFrom(s, first, (first + last) \div 2)
           tail == EncodeFrom(s, ((first + last) \div 2) + 1, last)
       IN  IF IsError(head) THEN head
           ELSE IF IsError(tail) THEN tail
           ELSE Result(head.result \o tail.result)

\* str.encode(): the bytes, or UnicodeEncodeError
encode(s) == EncodeFrom(s, 1, Len(s))

(***************************************************************************)
(* The arguments of the track_error calls of the specifications.           *)
(***************************************************************************)
TrackInputs ==
  { [exception |-> [type |-> S_MemoryError, msg |-> S_oom],
     has_context |-> FALSE, context |-> EmptyDict],
    [exception |-> [type |-> S_ValueError, msg |-> S_bad_value],
     has_context |-> TRUE, context |-> EmptyDict],
    [exception |-> [type |-> S_Exception, msg |-> S_down],
     has_context |-> TRUE,
     context |-> [function |-> S_f, source |-> S_mcp_server,
                  server_name |-> S_s1, consecutive_failures |-> 4]] }

S_g == <<"g">>

\* two different memory errors, and an error that fires no rule
AlertInputs ==
  { [exception |-> [type |-> S_MemoryError, msg |-> S_oom],
     has_context |-> FALSE, context |-> EmptyDict],
    [exception |-> [type |-> S_MemoryError, msg |-> S_oom],
     has_context |-> TRUE, context |-> [function |-> S_g]],
    [exception |-> [type |-> S_ValueError, msg |-> S_bad_value],
     has_context |-> TRUE, context |-> EmptyDict] }

S_many == <<"m", "a", "n", "y">>

\* two messages of a ValueError whose signatures (with no function) have MD5
\* digests that begin with the same 12 hexadecimal digits
S_m3089114 == <<"m","3","0","8","9","1","1","4">>
S_m11562493 == <<"m","1","1","5","6","2","4","9","3">>

\* Exception('down') reported from f, with the context given
Down(context) ==
  [exception |-> [type |-> S_Exception, msg |-> S_down],
   has_context |-> TRUE, context |-> context]

\* ValueError(msg) reported from the function named
Invalid(msg, function) ==
  [exception |-> [type |-> S_ValueError, msg |-> msg],
   has_context |-> TRUE, context |-> [function |-> function]]

ContextInputs ==
  { Down([function |-> S_f, source |-> S_mcp_server, server_name |-> S_s1,
          consecutive_failures |-> 2]),
    Down([function |-> S_f, source |-> S_mcp_server, server_name |-> S_s1,
          consecutive_failures |-> 4]),
    Down([function |-> S_f]),
    Down([function |-> S_f, source |-> S_mcp_server, server_name |-> S_s1,
          consecutive_failures |-> S_many, non_numeric |-> {"consecutive_failures"}]),
    Invalid(<<"b", ":", "c">>, <<"d">>),
    Invalid(<<"b">>, <<"c", ":", "d">>),
    Invalid(S_m3089114, <<>>),
    Invalid(S_m11562493, <<>>),
    [exception |-> [type |-> S_ValueError, msg |-> S_bad_value],
     has_context |-> FALSE, context |-> EmptyDict] }

\* 'bad \udc80': a message with a lone surrogate, as os.fsdecode(b'\x80')
\* and the surrogateescape error handler make them
S_bad_byte == <<"b", "a", "d", " ", "U+DC80">>

\* the errors above, and an error whose message came from bytes that are
\* not UTF-8
SignatureInputs == TrackInputs \cup {Invalid(S_bad_byte, <<>>)}

DigitChars == <<"0","1","2","3","4","5","6","7","8","9">>

\* str(n)
RECURSIVE Decimal(_)
Decimal(n) ==
  IF n < 10 THEN <<DigitChars[n + 1]>>
  ELSE Decimal(n \div 10) \o <<DigitChars[(n % 10) + 1]>>

\* the errors a tracker that is full has tracked: Exception("e1"), ...
EarlierException(i) == [type |-> S_Exception, msg |-> <<"e">> \o Decimal(i)]

\* the most of them a tracker has tracked
MaxEarlier == PruneCount - 1 + MaxMaxErrors

\* the error a tracker with a long history has tracked again and again
RepeatedException == [type |-> S_ValueError, msg |-> S_bad_value]

(***************************************************************************)
(* ErrorTracker.generate_error_id.                                         *)
(***************************************************************************)
\* f"{type(exception).__name__}:{exception}:{context.get('function', '')}"
error_signature(exception, context) ==
  exception.type \o <<":">> \o exception.msg \o <<":">> \o Get(context, "function", <<>>)

\* hashlib.md5(signature.encode()).hexdigest()[:12]: encode() runs first, and
\* what it raises leaves the expression
md5_hexdigest_12(signature) ==
  LET encoded == encode(signature)
  IN  IF IsError(encoded) THEN encoded
      ELSE Result(SubSeq(hexdigest(md5(encoded.result)), 1, 12))

\* the signatures of the arguments above
KnownSignatures ==
  {error_signature(input.exception,
                   IF input.has_context THEN input.context ELSE EmptyDict) :
     input \in TrackInputs \cup AlertInputs \cup ContextInputs \cup SignatureInputs}
    \cup {error_signature(EarlierException(i), EmptyDict) : i \in 1..MaxEarlier}
    \cup {error_signature(RepeatedException, EmptyDict)}

\* what line 196 gives for each, computed once: <<signature, id or error>>
KnownIds == {<<signature, md5_hexdigest_12(signature)>> : signature \in KnownSignatures}

\* lines 195-196: the id returned, or the UnicodeEncodeError raised (what
\* line 196 gives for a signature above is looked up, for any other it is
\* computed)
generate_error_id(exception, context) ==
  LET error_signature_ == error_signature(exception, context)
  IN  IF error_signature_ \in KnownSignatures
      THEN (CHOOSE known \in KnownIds : known[1] = error_signature_)[2]
      ELSE md5_hexdigest_12(error_signature_)

(***************************************************************************)
(* ErrorTracker: state.                                                    *)
(*   heap       the ErrorEvent objects, by object identity                 *)
(*   errors     self.errors: the object of each key, in dict order (the    *)
(*              key of an entry is its event's id)                         *)
(*   task       the track_error calls: position and local variables        *)
(*   sched      "loop": coroutines of one asyncio event loop, which run    *)
(*              from one suspension point to the next; "threads": every    *)
(*              step of every call may interleave                          *)
(*   running    the coroutine the event loop is running (0: none)          *)
(*   now        the wall clock, in ticks                                   *)
(* callLog, alertLog, lastPrune record what the calls did, sendLog the     *)
(* delivery attempts, opLog the acknowledge_alert and resolve_alert calls  *)
(* and returnLog how each call ended; callsLeft and ticksLeft bound the    *)
(* run.                                                                    *)
(***************************************************************************)
VARIABLES max_errors, heap, errors, recent_errors, alerts, alert_rules,
          last_alert_times, config, now, task, running, sched,
          callLog, alertLog, lastPrune, recentLog, sendLog, opLog, returnLog,
          callsLeft, ticksLeft

trackerVars == <<max_errors, heap, errors, recent_errors, alerts, alert_rules,
                 last_alert_times, config, now, task, running, sched,
                 callLog, alertLog, lastPrune, recentLog, sendLog, opLog, returnLog,
                 callsLeft, ticksLeft>>

\* a call of MetricsCollector._percentile: its arguments and its outcome
VARIABLES pct

\* MetricsCollector: its fields (error_rates_order is the order of the keys
\* of self.error_rates, in which a dict is iterated: the order they were
\* inserted in), the RLock, the calls of each thread, and (inserted, issued,
\* lastStats, lastRate, lastMetrics) what was asked of it and what it answered
VARIABLES max_samples, start_time, counters, gauges, histograms, timers,
          error_counts, error_rates, error_rates_order, request_counts, response_times,
          lock, mtask, inserted, issued, lastStats, lastRate, lastMetrics, opsLeft

collectorVars == <<max_samples, start_time, counters, gauges, histograms, timers,
                   error_counts, error_rates, error_rates_order, request_counts,
                   response_times>>

metricsVars == <<collectorVars, lock, mtask, inserted, issued, lastStats, lastRate,
                 lastMetrics, opsLeft>>

\* the scopes of TimerContext and RequestTracker.track_request that are
\* open, and what the scopes that were left did
VARIABLES scope, scopeLog

scopeVars == <<scope, scopeLog>>

\* a call of categorize_error or of determine_severity: its arguments and
\* its result
VARIABLES pure

vars == <<trackerVars, pct, metricsVars, scopeVars, pure>>

Min(a, b) == IF a < b THEN a ELSE b

\* seconds, in clock ticks
Seconds(n) == n * TicksPerSecond

\* int(time.time()) of a clock reading
IntSeconds(t) == t \div TicksPerSecond

DequeAppend_DropNewest(buf, v, cap) ==
  IF Len(buf) >= cap THEN buf ELSE Append(buf, v)

\* collections.deque(maxlen=cap).append(v)
DequeAppend(buf, v, cap) ==
  IF cap = 0 THEN <<>>
  ELSE IF Len(buf) >= cap THEN Append(Tail(buf), v)
  ELSE Append(buf, v)

\* ErrorTracker._setup_default_rules
DefaultRules ==
  << [name |-> "high_error_rate", severity |-> HIGH,
      cooldown_seconds |-> DefaultCooldownSeconds, enabled |-> TRUE],
     [name |-> "critical_system_error", severity |-> CRITICAL,
      cooldown_seconds |-> DefaultCooldownSeconds, enabled |-> TRUE],
     [name |-> "mcp_server_down", severity |-> HIGH,
      cooldown_seconds |-> DefaultCooldownSeconds, enabled |-> TRUE],
     [name |-> "authentication_failures", severity |-> MEDIUM,
      cooldown_seconds |-> DefaultCooldownSeconds, enabled |-> TRUE] >>

\* the rules' condition lambdas; error_rate_per_minute is the exact quotient
\* [count |-> recent_count, minutes |-> 5]
RuleCondition(rule, ctx) ==
  CASE rule.name = "high_error_rate" ->
         ctx.error_rate_per_minute.count > 10 * ctx.error_rate_per_minute.minutes
    [] rule.name = "critical_system_error" ->
         ctx.category = SYSTEM_RESOURCE
    [] rule.name = "mcp_server_down" ->
         ctx.category = MCP_SERVER /\ ctx.consecutive_failures > 3
    [] rule.name = "authentication_failures" ->
         ctx.category = AUTHENTICATION /\ ctx.count > 5
    [] OTHER -> FALSE

calculate_error_rate_WholeRing(current_time) ==
  [count |-> Len(recent_errors), minutes |-> ErrorRateMinutes]

\* ErrorTracker._calculate_error_rate, at clock reading current_time
calculate_error_rate(current_time) ==
  LET cutoff_time == current_time - Seconds(ErrorRateWindowSeconds)
      recent == {i \in 1..Len(recent_errors) : recent_errors[i].timestamp > cutoff_time}
  IN  [count |-> Cardinality(recent), minutes |-> ErrorRateMinutes]

\* the keys of self.errors, in dict order
ErrorIds == [i \in 1..Len(errors) |-> heap[errors[i]].id]

HasError_Never(error_id) == FALSE

\* error_id in self.errors
HasError(error_id) == \E i \in 1..Len(errors) : heap[errors[i]].id = error_id

\* the position of a key of self.errors
ErrorIndex(error_id) == CHOOSE i \in 1..Len(errors) : heap[errors[i]].id = error_id

\* self.errors[error_id]
ErrorObj(error_id) == errors[ErrorIndex(error_id)]

\* the place of seq[i] in sorted(seq, key=lambda e: e.last_seen): after every
\* entry with a smaller key and, the sort being stable, after the earlier
\* entries with the same key
SortPosition(h, seq, i) ==
  Cardinality({j \in 1..Len(seq) :
                 \/ h[seq[j]].last_seen < h[seq[i]].last_seen
                 \/ (h[seq[j]].last_seen = h[seq[i]].last_seen /\ j < i)}) + 1

\* sorted(seq, key=lambda e: e.last_seen)
SortedByLastSeen(h, seq) ==
  CHOOSE sorted \in
    {[k \in 1..Len(seq) |-> seq[CHOOSE i \in 1..Len(seq) : position[i] = k]] :
       position \in {[i \in 1..Len(seq) |-> SortPosition(h, seq, i)]}} : TRUE

\* oldest_errors[:100]
OldestErrors(h, seq) ==
  LET oldest_errors == SortedByLastSeen(h, seq)
  IN  SubSeq(oldest_errors, 1, Min(PruneCount, Len(oldest_errors)))

\* the sequence without the members of a set
Without(seq, gone) == SelectSeq(seq, LAMBDA x : x \notin gone)

\* the set of a sequence's members
Range(seq) == {seq[i] : i \in 1..Len(seq)}

\* len(self.errors) > self.max_errors
OverCapacity(n) == n > max_errors

IdleTask ==
  [pc |-> "idle", exception |-> [type |-> <<>>, msg |-> <<>>],
   context |-> EmptyDict, error_id |-> <<>>, category |-> UNKNOWN,
   current_time |-> 0, error_event |-> 0, count_read |-> 0,
   severity |-> LOW, check_time |-> 0, rate_time |-> 0, deque_state |-> 0,
   alert_context |-> EmptyDict, rule_idx |-> 0, alert_id |-> <<>>,
   prune_before |-> 0, oldest_errors |-> <<>>, deleted |-> 0,
   call |-> 0, alert |-> 0,
   position |-> 0, recent_count |-> 0, timestamp |-> 0, values |-> <<>>, keys |-> <<>>]

Procs == DOMAIN task

\* the calls that are between their first and their last step
InProgress == {t \in Procs : task[t].pc # "idle"}

\* a step of a call that is running
CanStep(t) == sched = "threads" \/ running = t

\* a call may start, or resume after a suspension
CanResume(t) == sched = "threads" \/ running = 0

Hold(t) == IF sched = "threads" THEN 0 ELSE t

\* an unused object identity
NewObj == CHOOSE o \in 1..(Cardinality(DOMAIN heap) + 1) : o \notin DOMAIN heap

\* the objects something still refers to
Live(errs, tsk) ==
  (Range(errs) \cup {tsk[u].error_event : u \in {v \in DOMAIN tsk : tsk[v].pc # "idle"}}
               \cup UNION {Range(tsk[u].oldest_errors) : u \in DOMAIN tsk}
               \cup UNION {Range(tsk[u].values) : u \in DOMAIN tsk})
     \ {0}

\* the heap once the objects nothing refers to are freed
Collected(errs, tsk) ==
  IF Live(errs, tsk) = DOMAIN heap THEN heap ELSE [x \in Live(errs, tsk) |-> heap[x]]

\* the time that passes between two steps: a moment
ShortTick == 1

\* the time that passes while nothing runs: just under a cooldown
LongTick == Seconds(DefaultCooldownSeconds) - 1

(***************************************************************************)
(* ErrorTracker.track_error, step by step.                                 *)
(***************************************************************************)
ghostUnchanged ==
  UNCHANGED <<callLog, alertLog, lastPrune, recentLog, sendLog, opLog, returnLog>>
boundsUnchanged == UNCHANGED <<callsLeft, ticksLeft>>
fixedUnchanged ==
  UNCHANGED <<max_errors, alert_rules, config, sched, pct, metricsVars, scopeVars, pure>>

\* the id in callLog of a call that got none
NoId == <<>>

\* lines 198-205: the default context, the id, the category, the time; an
\* exception that line 203 raises leaves the call there, before the tracker
\* has recorded anything
Track(t, inputs) ==
  \E input \in inputs :
    LET context == IF input.has_context THEN input.context ELSE EmptyDict
        error_id == generate_error_id(input.exception, context)
    IN  /\ task[t].pc = "idle"
        /\ CanResume(t)
        /\ callsLeft > 0
        /\ callsLeft' = callsLeft - 1
        /\ IF IsError(error_id)
           THEN /\ callLog' = Append(callLog,
                                     [signature |-> error_signature(input.exception, context),
                                      error_id |-> NoId])
                /\ returnLog' = Append(returnLog,
                                       [call |-> Len(callLog) + 1, raised |-> TRUE])
                /\ UNCHANGED <<task, running>>
           ELSE /\ task' = [task EXCEPT ![t] =
                              [IdleTask EXCEPT !.pc = "test",
                                               !.exception = input.exception,
                                               !.context = context,
                                               !.error_id = error_id.result,
                                               !.category = categorize_error(input.exception,
                                                                             context),
                                               !.current_time = now,
                                               !.call = Len(callLog) + 1]]
                /\ running' = Hold(t)
                /\ callLog' = Append(callLog,
                                     [signature |-> error_signature(input.exception, context),
                                      error_id |-> error_id.result])
                /\ UNCHANGED returnLog
        /\ UNCHANGED <<heap, errors, recent_errors, alerts, last_alert_times, now,
                       alertLog, lastPrune, recentLog, sendLog, opLog, ticksLeft>>
        /\ fixedUnchanged

TrackError(t) == Track(t, TrackInputs)

\* how a call ended: it returned, or an exception left it
Returned(t) == [call |-> task[t].call, raised |-> FALSE]

Raised(t) == [call |-> task[t].call, raised |-> TRUE]

\* an exception leaves track_error (nothing in it or around it catches): the
\* call ends where it is, self.errors being errs
Raise(t, errs) ==
  LET tsk == [task EXCEPT ![t] = IdleTask]
  IN  /\ task' = tsk
      /\ running' = 0
      /\ returnLog' = Append(returnLog, Raised(t))
      /\ heap' = Collected(errs, tsk)

\* line 208: if error_id in self.errors
TestKnown(t) ==
  /\ task[t].pc = "test"
  /\ CanStep(t)
  /\ task' = [task EXCEPT ![t].pc =
                IF HasError(task[t].error_id) THEN "update_read" ELSE "create"]
  /\ UNCHANGED <<heap, errors, recent_errors, alerts, last_alert_times, now, running>>
  /\ ghostUnchanged /\ boundsUnchanged /\ fixedUnchanged

\* line 209: error_event = self.errors[error_id], which raises KeyError when
\* the entry was deleted since line 208.  On an event loop nothing runs
\* before line 210 reads error_event.count, and the step reads it; with
\* threads the step is the lookup alone.
UpdateRead(t) ==
  /\ task[t].pc = "update_read"
  /\ CanStep(t)
  /\ IF HasError(task[t].error_id)
     THEN /\ LET o == ErrorObj(task[t].error_id)
             IN  task' = [task EXCEPT ![t] =
                           IF sched = "loop"
                           THEN [task[t] EXCEPT !.pc = "update_write",
                                                !.error_event = o,
                                                !.count_read = heap[o].count]
                           ELSE [task[t] EXCEPT !.pc = "update_count",
                                                !.error_event = o]]
          /\ UNCHANGED <<heap, running, returnLog>>
     ELSE Raise(t, errors)
  /\ UNCHANGED <<errors, recent_errors, alerts, last_alert_times, now>>
  /\ UNCHANGED <<callLog, alertLog, lastPrune, recentLog, sendLog, opLog>>
  /\ boundsUnchanged /\ fixedUnchanged

\* line 210, the read of error_event.count
ReadCount(t) ==
  /\ task[t].pc = "update_count"
  /\ CanStep(t)
  /\ task' = [task EXCEPT ![t].pc = "update_write",
                          ![t].count_read = heap[task[t].error_event].count]
  /\ UNCHANGED <<heap, errors, recent_errors, alerts, last_alert_times, now, running>>
  /\ ghostUnchanged /\ boundsUnchanged /\ fixedUnchanged

\* the new value of error_event.count, from the value read
NextCount(count_read) == count_read + 1

\* line 210, the write of error_event.count.  On an event loop nothing runs
\* before line 211, and the step stores error_event.last_seen as well; with
\* threads that store is the step after.
UpdateWrite(t) ==
  /\ task[t].pc = "update_write"
  /\ CanStep(t)
  /\ IF sched = "loop"
     THEN /\ heap' = [heap EXCEPT
                        ![task[t].error_event].count = NextCount(task[t].count_read),
                        ![task[t].error_event].last_seen = task[t].current_time]
          /\ task' = [task EXCEPT ![t].pc = "severity"]
     ELSE /\ heap' = [heap EXCEPT
                        ![task[t].error_event].count = NextCount(task[t].count_read)]
          /\ task' = [task EXCEPT ![t].pc = "update_last_seen"]
  /\ UNCHANGED <<errors, recent_errors, alerts, last_alert_times, now, running>>
  /\ ghostUnchanged /\ boundsUnchanged /\ fixedUnchanged

\* line 211: error_event.last_seen = current_time
StoreLastSeen(t) ==
  /\ task[t].pc = "update_last_seen"
  /\ CanStep(t)
  /\ heap' = [heap EXCEPT ![task[t].error_event].last_seen = task[t].current_time]
  /\ task' = [task EXCEPT ![t].pc = "severity"]
  /\ UNCHANGED <<errors, recent_errors, alerts, last_alert_times, now, running>>
  /\ ghostUnchanged /\ boundsUnchanged /\ fixedUnchanged

\* lines 213-224: ErrorEvent(...)
ErrorEventOf(exception, context, error_id, category, current_time) ==
  [id |-> error_id,
   timestamp |-> current_time,
   category |-> category,
   severity |-> determine_severity(category, 1, context),
   message |-> exception.msg,
   exception_type |-> exception.type,
   context |-> context,
   count |-> 1,
   first_seen |-> current_time,
   last_seen |-> current_time]

NewErrorEvent(t) ==
  ErrorEventOf(task[t].exception, task[t].context, task[t].error_id,
               task[t].category, task[t].current_time)

\* line 231: the record appended to self.recent_errors
RecentRecord(exception, error_id, category, current_time) ==
  [id |-> error_id, timestamp |-> current_time, category |-> category,
   message |-> exception.msg]

\* lines 213-225: the new event; self.errors[error_id] = error_event
CreateEvent(t) ==
  /\ task[t].pc = "create"
  /\ CanStep(t)
  /\ LET o == NewObj
         replaced == IF HasError(task[t].error_id)
                     THEN [errors EXCEPT ![ErrorIndex(task[t].error_id)] = o]
                     ELSE Append(errors, o)
         tsk == [task EXCEPT ![t].pc = "severity", ![t].error_event = o]
         h == (o :> NewErrorEvent(t)) @@ heap
     IN  /\ errors' = replaced
         /\ task' = tsk
         /\ heap' = [x \in Live(replaced, tsk) |-> h[x]]
  /\ UNCHANGED <<recent_errors, alerts, last_alert_times, now, running>>
  /\ ghostUnchanged /\ boundsUnchanged /\ fixedUnchanged

\* line 228, the right-hand side: determine_severity of the count as it is
SeverityRead(t) ==
  determine_severity(task[t].category, heap[task[t].error_event].count, task[t].context)

\* line 231: self.recent_errors.append({...})
RecentAppended(t) ==
  LET record == RecentRecord(task[t].exception, task[t].error_id,
                             task[t].category, task[t].current_time)
  IN  /\ recent_errors' = DequeAppend(recent_errors, record, RecentErrorsMaxLen)
      /\ recentLog' = Append(recentLog, record)

\* lines 228-231.  On an event loop nothing runs between the statements:
\* the severity of the new count is stored and the record appended.  With
\* threads the step is the right-hand side of line 228 alone.
UpdateSeverity(t) ==
  /\ task[t].pc = "severity"
  /\ CanStep(t)
  /\ IF sched = "loop"
     THEN /\ heap' = [heap EXCEPT ![task[t].error_event].severity = SeverityRead(t)]
          /\ RecentAppended(t)
          /\ task' = [task EXCEPT ![t].pc = "check"]
     ELSE /\ task' = [task EXCEPT ![t].pc = "severity_store",
                                  ![t].severity = SeverityRead(t)]
          /\ UNCHANGED <<heap, recent_errors, recentLog>>
  /\ UNCHANGED <<errors, alerts, last_alert_times, now, running>>
  /\ UNCHANGED <<callLog, alertLog, lastPrune, sendLog, opLog, returnLog>>
  /\ boundsUnchanged /\ fixedUnchanged

\* line 228, the assignment: error_event.severity = the value computed
StoreSeverity(t) ==
  /\ task[t].pc = "severity_store"
  /\ CanStep(t)
  /\ heap' = [heap EXCEPT ![task[t].error_event].severity = task[t].severity]
  /\ task' = [task EXCEPT ![t].pc = "recent"]
  /\ UNCHANGED <<errors, recent_errors, alerts, last_alert_times, now, running>>
  /\ ghostUnchanged /\ boundsUnchanged /\ fixedUnchanged

\* line 231
AppendRecent(t) ==
  /\ task[t].pc = "recent"
  /\ CanStep(t)
  /\ RecentAppended(t)
  /\ task' = [task EXCEPT ![t].pc = "check"]
  /\ UNCHANGED <<heap, errors, alerts, last_alert_times, now, running>>
  /\ UNCHANGED <<callLog, alertLog, lastPrune, sendLog, opLog, returnLog>>
  /\ boundsUnchanged /\ fixedUnchanged

\* line 244: _check_alert_conditions reads the time
CheckAlertConditions(t) ==
  /\ task[t].pc = "check"
  /\ CanStep(t)
  /\ task' = [task EXCEPT ![t].pc = "snapshot", ![t].check_time = now]
  /\ UNCHANGED <<heap, errors, recent_errors, alerts, last_alert_times, now, running>>
  /\ ghostUnchanged /\ boundsUnchanged /\ fixedUnchanged

\* lines 249-256: the snapshot, with the error rate given
AlertContextOf(t, error_rate) ==
  LET error_event == heap[task[t].error_event]
  IN  [error_rate_per_minute |-> error_rate,
       category |-> error_event.category,
       message |-> error_event.message,
       count |-> error_event.count,
       server_name |-> Get(error_event.context, "server_name", S_unknown),
       consecutive_failures |-> Get(error_event.context, "consecutive_failures", 0)]

\* lines 247-256: the snapshot, with the error rate of clock reading
\* current_time
AlertContextAt(t, current_time) == AlertContextOf(t, calculate_error_rate(current_time))

\* lines 247-256: the error rate (which reads the time) and the snapshot
AlertContext(t) == AlertContextAt(t, now)

\* the state counter of the deque self.recent_errors, which every append
\* advances and by which an iterator notices that the deque was mutated
DequeState == Len(recentLog)

\* lines 247-256.  On an event loop nothing runs between the statements:
\* the rate is computed and the snapshot built.  With threads the step is
\* the clock reading of line 275 alone.
BuildSnapshot(t) ==
  /\ task[t].pc = "snapshot"
  /\ CanStep(t)
  /\ task' = [task EXCEPT ![t] =
                IF sched = "loop"
                THEN [task[t] EXCEPT !.pc = "rules",
                                     !.alert_context = AlertContext(t),
                                     !.rule_idx = 1]
                ELSE [task[t] EXCEPT !.pc = "iterator",
                                     !.rate_time = now]]
  /\ UNCHANGED <<heap, errors, recent_errors, alerts, last_alert_times, now, running>>
  /\ ghostUnchanged /\ boundsUnchanged /\ fixedUnchanged

\* line 278: the generator expression makes the iterator over
\* self.recent_errors, which notes the state counter of the deque
MakeIterator(t) ==
  /\ task[t].pc = "iterator"
  /\ CanStep(t)
  /\ task' = [task EXCEPT ![t].pc = "iterate",
                          ![t].deque_state = DequeState,
                          ![t].position = 0,
                          ![t].recent_count = 0]
  /\ UNCHANGED <<heap, errors, recent_errors, alerts, last_alert_times, now, running>>
  /\ ghostUnchanged /\ boundsUnchanged /\ fixedUnchanged

\* line 278, one turn of sum(): the iterator is asked for the next record.
\* It raises RuntimeError('deque mutated during iteration') when a record
\* was appended since it was made; else it gives the next record, which is
\* counted if its timestamp is after the cutoff, or it is exhausted, and
\* the rate is returned
IterateRecent(t) ==
  /\ task[t].pc = "iterate"
  /\ CanStep(t)
  /\ IF DequeState # task[t].deque_state
     THEN Raise(t, errors)
     ELSE /\ task' = [task EXCEPT ![t] =
                IF task[t].position < Len(recent_errors)
                THEN LET error == recent_errors[task[t].position + 1]
                         cutoff_time == task[t].rate_time - Seconds(ErrorRateWindowSeconds)
                     IN  [task[t] EXCEPT
                            !.position = task[t].position + 1,
                            !.recent_count =
                               IF error.timestamp > cutoff_time
                               THEN task[t].recent_count + 1
                               ELSE task[t].recent_count]
                ELSE [task[t] EXCEPT !.pc = "context"]]
          /\ UNCHANGED <<heap, running, returnLog>>
  /\ UNCHANGED <<errors, recent_errors, alerts, last_alert_times, now>>
  /\ UNCHANGED <<callLog, alertLog, lastPrune, recentLog, sendLog, opLog>>
  /\ boundsUnchanged /\ fixedUnchanged

\* lines 249-256: the snapshot is built, of the rate returned and of the
\* fields of error_event as they are now
BuildContext(t) ==
  /\ task[t].pc = "context"
  /\ CanStep(t)
  /\ task' = [task EXCEPT
                ![t].pc = "rules",
                ![t].alert_context =
                   AlertContextOf(t, [count |-> task[t].recent_count,
                                      minutes |-> ErrorRateMinutes]),
                ![t].rule_idx = 1]
  /\ UNCHANGED <<heap, errors, recent_errors, alerts, last_alert_times, now, running>>
  /\ ghostUnchanged /\ boundsUnchanged /\ fixedUnchanged

\* f"{rule.name}_{error_event.id}"
RuleKey(rule, error_id) == <<rule.name, error_id>>

\* line 265: the pair fired less than cooldown_seconds before current_time
InCooldown(rule, rule_key, current_time) ==
  /\ rule_key \in DOMAIN last_alert_times
  /\ current_time - last_alert_times[rule_key] < Seconds(rule.cooldown_seconds)

RuleFires_IgnoresEnabled(t, rule) ==
  /\ ~InCooldown(rule, RuleKey(rule, task[t].error_id), task[t].check_time)
  /\ RuleCondition(rule, task[t].alert_context)

\* lines 259-269: whether the rule fires
RuleFires(t, rule) ==
  /\ rule.enabled
  /\ ~InCooldown(rule, RuleKey(rule, task[t].error_id), task[t].check_time)
  /\ RuleCondition(rule, task[t].alert_context)

\* the keys of a context whose value is not a number (a str, or None): the
\* type of a value, which Python holds with the value
NonNumericKeys(context) == Get(context, "non_numeric", {})

\* line 124: ctx.get("consecutive_failures", 0) > 3 raises TypeError for a
\* value that is not a number; the comparison is reached only when the
\* category is MCP_SERVER (the others read the rate, which is a float, and
\* the count, which is an int)
ConditionRaises(t, rule) ==
  /\ rule.name = "mcp_server_down"
  /\ task[t].alert_context.category = MCP_SERVER
  /\ "consecutive_failures" \in NonNumericKeys(heap[task[t].error_event].context)

\* lines 258-269: one turn of the loop over the rules; an exception of the
\* condition leaves _check_alert_conditions and track_error
EvaluateRule(t) ==
  /\ task[t].pc = "rules"
  /\ CanStep(t)
  /\ LET idx == task[t].rule_idx
         raises == /\ idx <= Len(alert_rules)
                   /\ alert_rules[idx].enabled
                   /\ ~InCooldown(alert_rules[idx],
                                  RuleKey(alert_rules[idx], task[t].error_id),
                                  task[t].check_time)
                   /\ ConditionRaises(t, alert_rules[idx])
     IN  IF raises
         THEN Raise(t, errors)
         ELSE /\ task' = [task EXCEPT ![t] =
                   IF idx > Len(alert_rules)
                   THEN [task[t] EXCEPT !.pc = "prune"]
                   ELSE IF RuleFires(t, alert_rules[idx])
                        THEN [task[t] EXCEPT !.pc = "alert_id"]
                        ELSE [task[t] EXCEPT !.rule_idx = idx + 1]]
              /\ UNCHANGED <<heap, running, returnLog>>
  /\ UNCHANGED <<errors, recent_errors, alerts, last_alert_times, now>>
  /\ UNCHANGED <<callLog, alertLog, lastPrune, recentLog, sendLog, opLog>>
  /\ boundsUnchanged /\ fixedUnchanged

\* f"{rule.name}_{int(time.time())}"
AlertId(rule, current_time) == <<rule.name, IntSeconds(current_time)>>

\* line 284: the alert's id, of the time read there
ReadAlertId(t) ==
  /\ task[t].pc = "alert_id"
  /\ CanStep(t)
  /\ task' = [task EXCEPT ![t].pc = "create_alert",
                          ![t].alert_id = AlertId(alert_rules[task[t].rule_idx], now)]
  /\ UNCHANGED <<heap, errors, recent_errors, alerts, last_alert_times, now, running>>
  /\ ghostUnchanged /\ boundsUnchanged /\ fixedUnchanged

\* the key of the context the rule's message_template formats
TemplateKey(rule) ==
  CASE rule.name = "high_error_rate" -> "error_rate_per_minute"
    [] rule.name = "critical_system_error" -> "message"
    [] rule.name = "mcp_server_down" -> "server_name"
    [] rule.name = "authentication_failures" -> "count"

\* lines 288-297: the alert of the time read at line 293 is stored
StoredAlert(t, timestamp) ==
  LET rule == alert_rules[task[t].rule_idx]
      alert_id == task[t].alert_id
      alert == [id |-> alert_id,
                severity |-> rule.severity,
                title |-> rule.name,
                message |-> <<rule.name, task[t].alert_context[TemplateKey(rule)]>>,
                timestamp |-> timestamp,
                context |-> task[t].alert_context,
                acknowledged |-> FALSE,
                resolved |-> FALSE]
  IN  /\ alerts' = (alert_id :> alert) @@ alerts
      /\ alertLog' = Append(alertLog,
                            [rule |-> rule.name, error_id |-> task[t].error_id,
                             cooldown_seconds |-> rule.cooldown_seconds,
                             alert_id |-> alert_id,
                             timestamp |-> timestamp, check_time |-> task[t].check_time])

\* lines 286-297.  On an event loop nothing runs between the statements:
\* the alert is built, with the time read at line 293, and stored.  With
\* threads the step is the clock reading of line 293 alone.
CreateAlert(t) ==
  /\ task[t].pc = "create_alert"
  /\ CanStep(t)
  /\ IF sched = "loop"
     THEN /\ StoredAlert(t, now)
          /\ task' = [task EXCEPT ![t].pc = "send", ![t].alert = Len(alertLog) + 1]
     ELSE /\ task' = [task EXCEPT ![t].pc = "store_alert", ![t].timestamp = now]
          /\ UNCHANGED <<alerts, alertLog>>
  /\ UNCHANGED <<heap, errors, recent_errors, last_alert_times, now, running,
                 callLog, lastPrune, recentLog, sendLog, opLog, returnLog>>
  /\ boundsUnchanged /\ fixedUnchanged

\* line 297: self.alerts[alert_id] = alert
StoreAlert(t) ==
  /\ task[t].pc = "store_alert"
  /\ CanStep(t)
  /\ StoredAlert(t, task[t].timestamp)
  /\ task' = [task EXCEPT ![t].pc = "send", ![t].alert = Len(alertLog) + 1]
  /\ UNCHANGED <<heap, errors, recent_errors, last_alert_times, now, running,
                 callLog, lastPrune, recentLog, sendLog, opLog, returnLog>>
  /\ boundsUnchanged /\ fixedUnchanged

\* how a webhook attempt ends: the response has status 200, or another
\* status (printed), or something in the attempt raised an Exception, or the
\* await raised a BaseException that is no Exception (asyncio.CancelledError
\* when the task of the call is cancelled, KeyboardInterrupt)
WebhookOutcomes == {"ok", "status", "raised", "cancelled"}

Caught_OnlyStatus(outcome) == outcome \in {"ok", "status"}

\* lines 345, 362-363: the try of _send_webhook_alert encloses the whole
\* attempt, and its except Exception catches the Exceptions
Caught(outcome) == outcome \in {"ok", "status", "raised"}

\* the end of the attempt of call t: the call goes on to line 271, or the
\* exception leaves track_error (no caller of _send_webhook_alert has a try)
Delivered(t, outcome) ==
  /\ sendLog' = Append(sendLog, [call |-> task[t].call, alert |-> task[t].alert,
                                 outcome |-> outcome, propagated |-> ~Caught(outcome)])
  /\ IF Caught(outcome)
     THEN /\ task' = [task EXCEPT ![t].pc = "record"]
          /\ running' = Hold(t)
          /\ UNCHANGED <<heap, returnLog>>
     ELSE Raise(t, errors)

\* lines 302-308, 345-357: no sink is configured; or the attempt raises
\* before it awaits anything (import aiohttp fails, say); or the webhook
\* request is awaited
\* (EMAIL_AVAILABLE is false whatever the configuration says: line 18 asks
\* email.mime.multipart for MimeMultipart, which it does not have, so the
\* import fails and _send_email_alert is not called)
SendAlert(t) ==
  /\ task[t].pc = "send"
  /\ CanStep(t)
  /\ IF config.webhook_url
     THEN \/ /\ task' = [task EXCEPT ![t].pc = "sending"]
             /\ running' = 0
             /\ UNCHANGED <<sendLog, heap, returnLog>>
          \/ Delivered(t, "raised")
     ELSE /\ task' = [task EXCEPT ![t].pc = "record"]
          /\ UNCHANGED <<running, sendLog, heap, returnLog>>
  /\ UNCHANGED <<errors, recent_errors, alerts, last_alert_times, now>>
  /\ UNCHANGED <<callLog, alertLog, lastPrune, recentLog, opLog>>
  /\ boundsUnchanged /\ fixedUnchanged

\* lines 357-363: the request ends, well or not (a failure is printed), or
\* the call is cancelled while it waits
WebhookDone(t) ==
  /\ task[t].pc = "sending"
  /\ CanResume(t)
  /\ \E outcome \in WebhookOutcomes : Delivered(t, outcome)
  /\ UNCHANGED <<errors, recent_errors, alerts, last_alert_times, now>>
  /\ UNCHANGED <<callLog, alertLog, lastPrune, recentLog, opLog>>
  /\ boundsUnchanged /\ fixedUnchanged

\* line 271: self.last_alert_times[rule_key] = current_time
RecordedTime(t) == task[t].check_time

RecordAlertTime(t) ==
  /\ task[t].pc = "record"
  /\ CanStep(t)
  /\ LET rule == alert_rules[task[t].rule_idx]
     IN  last_alert_times' =
           (RuleKey(rule, task[t].error_id) :> RecordedTime(t)) @@ last_alert_times
  /\ task' = [task EXCEPT ![t].pc = "rules", ![t].rule_idx = task[t].rule_idx + 1]
  /\ UNCHANGED <<heap, errors, recent_errors, alerts, now, running>>
  /\ ghostUnchanged /\ boundsUnchanged /\ fixedUnchanged

\* the id and the last_seen of each of a list of events
Listed(events) ==
  [i \in 1..Len(events) |-> [id |-> heap[events[i]].id,
                             last_seen |-> heap[events[i]].last_seen]]

\* what a pruning pass saw and did
PruneRecord(t, removed, kept) ==
  [over |-> OverCapacity(Len(errors)),
   error_id |-> task[t].error_id,
   before |-> Len(errors),
   removed |-> Listed(removed),
   kept |-> Listed(kept)]

\* the call returns, self.errors being kept
Return(t, kept) ==
  LET tsk == [task EXCEPT ![t] = IdleTask]
  IN  /\ task' = tsk
      /\ running' = 0
      /\ heap' = Collected(kept, tsk)
      /\ returnLog' = Append(returnLog, Returned(t))

\* lines 237-240.  On an event loop nothing runs between the statements:
\* the oldest 100 are deleted and the call returns.  With threads the step
\* is the test of line 237 alone.
Prune(t) ==
  /\ task[t].pc = "prune"
  /\ CanStep(t)
  /\ IF sched = "loop" \/ ~OverCapacity(Len(errors))
     THEN \E removed \in {IF OverCapacity(Len(errors)) THEN OldestErrors(heap, errors)
                          ELSE <<>>} :
            \E kept \in {Without(errors, Range(removed))} :
              /\ errors' = kept
              /\ Return(t, kept)
              /\ lastPrune' = PruneRecord(t, removed, kept)
     ELSE /\ task' = [task EXCEPT ![t].pc = "prune_sort",
                                  ![t].prune_before = Len(errors)]
          /\ UNCHANGED <<heap, errors, running, returnLog, lastPrune>>
  /\ UNCHANGED <<recent_errors, alerts, last_alert_times, now, callLog, alertLog, recentLog,
                 sendLog, opLog>>
  /\ boundsUnchanged /\ fixedUnchanged

\* line 238: sorted() makes a list of self.errors.values(); of an empty one
\* (the entries were deleted since line 237) nothing is to sort
PruneSort(t) ==
  /\ task[t].pc = "prune_sort"
  /\ CanStep(t)
  /\ task' = [task EXCEPT ![t] =
                IF errors = <<>>
                THEN [task[t] EXCEPT !.pc = "prune_delete",
                                     !.oldest_errors = <<>>,
                                     !.deleted = 0]
                ELSE [task[t] EXCEPT !.pc = "prune_key",
                                     !.values = errors,
                                     !.keys = <<>>]]
  /\ UNCHANGED <<heap, errors, recent_errors, alerts, last_alert_times, now, running>>
  /\ ghostUnchanged /\ boundsUnchanged /\ fixedUnchanged

\* the events of a list with the keys read of them, as a heap to sort by
KeyedBy(values, keys) ==
  [o \in Range(values) |->
     [last_seen |-> keys[CHOOSE i \in 1..Len(values) : values[i] = o]]]

\* lines 238-239: sorted() calls the key lambda on the next event of its
\* list, which reads the event's last_seen; after the last call the list is
\* sorted by the keys read, and oldest_errors is its first 100
PruneKey(t) ==
  /\ task[t].pc = "prune_key"
  /\ CanStep(t)
  /\ LET values == task[t].values
         keys == Append(task[t].keys, heap[values[Len(task[t].keys) + 1]].last_seen)
     IN  task' = [task EXCEPT ![t] =
                    IF Len(keys) < Len(values)
                    THEN [task[t] EXCEPT !.keys = keys]
                    ELSE [task[t] EXCEPT !.pc = "prune_delete",
                                         !.oldest_errors =
                                            OldestErrors(KeyedBy(values, keys), values),
                                         !.deleted = 0,
                                         !.values = <<>>,
                                         !.keys = <<>>]]
  /\ UNCHANGED <<heap, errors, recent_errors, alerts, last_alert_times, now, running>>
  /\ ghostUnchanged /\ boundsUnchanged /\ fixedUnchanged

\* lines 239-240: one turn of the loop, del self.errors[old_error.id], which
\* raises KeyError when the entry is there no more; after the last turn the
\* call returns
PruneDelete(t) ==
  /\ task[t].pc = "prune_delete"
  /\ CanStep(t)
  /\ LET oldest_errors == task[t].oldest_errors
         deleted == task[t].deleted
     IN  IF deleted = Len(oldest_errors)
         THEN /\ Return(t, errors)
              /\ lastPrune' = [over |-> TRUE,
                               error_id |-> task[t].error_id,
                               before |-> task[t].prune_before,
                               removed |-> Listed(oldest_errors),
                               kept |-> Listed(errors)]
              /\ UNCHANGED errors
         ELSE LET id == heap[oldest_errors[deleted + 1]].id
              IN  IF HasError(id)
                  THEN /\ errors' = Without(errors, {ErrorObj(id)})
                       /\ task' = [task EXCEPT ![t].deleted = deleted + 1]
                       /\ UNCHANGED <<heap, running, returnLog, lastPrune>>
                  ELSE /\ Raise(t, errors)
                       /\ UNCHANGED <<errors, lastPrune>>
  /\ UNCHANGED <<recent_errors, alerts, last_alert_times, now, callLog, alertLog, recentLog,
                 sendLog, opLog>>
  /\ boundsUnchanged /\ fixedUnchanged

\* nothing is between two steps: every call is idle or awaits its webhook
Quiet == \A t \in Procs : task[t].pc \in {"idle", "sending"}

\* time passes: a moment at any point, a long time only while nothing runs
Tick ==
  \E d \in {ShortTick} \cup (IF Quiet THEN {LongTick} ELSE {}) :
    /\ ticksLeft > 0
    /\ now' = now + d
    /\ ticksLeft' = ticksLeft - 1
    /\ UNCHANGED <<heap, errors, recent_errors, alerts, last_alert_times, task, running,
                   callsLeft>>
    /\ ghostUnchanged /\ fixedUnchanged

\* lines 392-394: configure_alerts({"webhook_url": ...}), with a URL or with
\* None.  A plain method: on an event loop it runs while no coroutine does.
ConfigureAlerts ==
  /\ sched = "threads" \/ running = 0
  /\ \E webhook_url \in BOOLEAN : config' = [config EXCEPT !.webhook_url = webhook_url]
  /\ UNCHANGED <<heap, errors, recent_errors, alerts, last_alert_times, now, task, running>>
  /\ UNCHANGED <<max_errors, alert_rules, sched, pct, metricsVars, scopeVars, pure>>
  /\ ghostUnchanged /\ boundsUnchanged

(***************************************************************************)
(* Python floats (IEEE-754 doubles).  The doubles that arise from small    *)
(* natural numbers by the operations below are natural multiples of        *)
(* 2^-72 under 2^24.  A double is held as that multiple, a number of       *)
(* NumLimbs limbs of LimbBits bits, the least significant first; each      *)
(* operation computes the exact result and rounds it to the nearest        *)
(* number of 53 significant bits, ties to the even one.                    *)
(***************************************************************************)
LimbBits == 12

LimbBase == 2^LimbBits

\* 72 binary places
FracLimbs == 6

NumLimbs == 8

MantissaBits == 53

Limbs == 1..NumLimbs

\* float(k) of a natural number k < 2^24
FromInt(k) ==
  [i \in Limbs |-> IF i = FracLimbs + 1 THEN k % LimbBase
                   ELSE IF i = FracLimbs + 2 THEN k \div LimbBase
                   ELSE 0]

\* int(x)
IntOf(x) == x[FracLimbs + 1] + LimbBase * x[FracLimbs + 2]

\* x.is_integer()
IsInteger(x) == \A i \in 1..FracLimbs : x[i] = 0

\* x < y
FLess(x, y) == \E i \in Limbs : x[i] < y[i] /\ \A j \in Limbs : j > i => x[j] = y[j]

\* bit i (from 0) of the multiple
Bit(x, i) == (x[(i \div LimbBits) + 1] \div (2^(i % LimbBits))) % 2

\* the number of bits of the multiple
BitLength(x) ==
  IF \A i \in Limbs : x[i] = 0 THEN 0
  ELSE LET top == CHOOSE i \in Limbs : x[i] # 0 /\ \A j \in Limbs : j > i => x[j] = 0
           width == CHOOSE w \in 1..LimbBits : 2^(w - 1) <= x[top] /\ x[top] < 2^w
       IN  (top - 1) * LimbBits + width

\* the exact sum
RECURSIVE AddCarry(_, _, _)
AddCarry(x, y, i) ==
  IF i = 0 THEN 0 ELSE (x[i] + y[i] + AddCarry(x, y, i - 1)) \div LimbBase

ExactAdd(x, y) == [i \in Limbs |-> (x[i] + y[i] + AddCarry(x, y, i - 1)) % LimbBase]

\* the exact difference, for x >= y
RECURSIVE SubBorrow(_, _, _)
SubBorrow(x, y, i) ==
  IF i = 0 THEN 0
  ELSE IF x[i] - y[i] - SubBorrow(x, y, i - 1) < 0 THEN 1 ELSE 0

ExactSub(x, y) ==
  [i \in Limbs |-> (LimbBase + x[i] - y[i] - SubBorrow(x, y, i - 1)) % LimbBase]

\* the exact product with a natural number k < 2^18
RECURSIVE MulCarry(_, _, _)
MulCarry(x, k, i) ==
  IF i = 0 THEN 0 ELSE (x[i] * k + MulCarry(x, k, i - 1)) \div LimbBase

ExactMul(x, k) == [i \in Limbs |-> (x[i] * k + MulCarry(x, k, i - 1)) % LimbBase]

\* the quotient by a natural number 0 < d < 2^18, rounded down, and what is left
RECURSIVE DivRem(_, _, _)
DivRem(x, d, i) ==
  IF i > NumLimbs THEN 0 ELSE (DivRem(x, d, i + 1) * LimbBase + x[i]) % d

FloorDiv(x, d) == [i \in Limbs |-> (DivRem(x, d, i + 1) * LimbBase + x[i]) \div d]

\* the multiple with its lowest drop bits cleared
Truncate(x, drop) ==
  [i \in Limbs |->
     IF i - 1 < drop \div LimbBits THEN 0
     ELSE IF i - 1 = drop \div LimbBits
          THEN (x[i] \div (2^(drop % LimbBits))) * (2^(drop % LimbBits))
          ELSE x[i]]

PowerOfTwo(pos) ==
  [i \in Limbs |-> IF i - 1 = pos \div LimbBits THEN 2^(pos % LimbBits) ELSE 0]

\* the double nearest to an exact result x (plus a little, when inexact):
\* round to nearest, ties to even
RoundToDouble(x, inexact) ==
  LET drop == BitLength(x) - MantissaBits
  IN  IF drop <= 0 THEN x
      ELSE LET half == Bit(x, drop - 1) = 1
               rest == inexact \/ \E i \in 0..(drop - 2) : Bit(x, i) = 1
               odd == Bit(x, drop) = 1
           IN  IF half /\ (rest \/ odd)
               THEN ExactAdd(Truncate(x, drop), PowerOfTwo(drop))
               ELSE Truncate(x, drop)

\* the member of a set of one (a value bound to a member of a set is
\* evaluated once, however often it is referred to)
Only(S) == CHOOSE v \in S : TRUE

\* x + y, x - y (x >= y), x * k and x / d in floating point
FAdd(x, y) ==
  Only({RoundToDouble(exact, FALSE) : exact \in {ExactAdd(a, b) : a \in {x}, b \in {y}}})

FSub(x, y) ==
  Only({RoundToDouble(exact, FALSE) : exact \in {ExactSub(a, b) : a \in {x}, b \in {y}}})

FMul(x, k) ==
  Only({RoundToDouble(exact, FALSE) : exact \in {ExactMul(a, k) : a \in {x}}})

FDiv(x, d) ==
  Only(UNION {{RoundToDouble(floor, DivRem(a, d, 1) # 0) : floor \in {FloorDiv(a, d)}} :
              a \in {x}})

(***************************************************************************)
(* MetricsCollector._percentile                                            *)
(***************************************************************************)
\* sorted(data)[k - 1]: fewer than k members are smaller, at least k no larger
SortedAt(data, k) ==
  CHOOSE v \in Range(data) :
    /\ Cardinality({j \in 1..Len(data) : data[j] < v}) < k
    /\ k <= Cardinality({j \in 1..Len(data) : data[j] <= v})

\* line 158: index = (percentile / 100) * (len(sorted_data) - 1)
PercentileIndex(percentile, n) == FMul(FDiv(FromInt(percentile), 100), n - 1)

\* lines 160-166: the sample at an integral index, the interpolation at another;
\* a subscript past the end raises IndexError
PercentileAt(data, index) ==
  LET at == IntOf(index)
  IN  IF IsInteger(index)
      THEN IF at + 1 > Len(data)
           THEN [raised |-> TRUE, value |-> FromInt(0)]
           ELSE [raised |-> FALSE, value |-> FromInt(SortedAt(data, at + 1))]
      ELSE IF at + 2 > Len(data)
           THEN [raised |-> TRUE, value |-> FromInt(0)]
           ELSE \* lower + (upper - lower) * (index - int(index))
                Only({[raised |-> FALSE,
                       value |-> FAdd(FromInt(lower),
                                      FMul(FSub(index, FromInt(at)), upper - lower))] :
                        lower \in {SortedAt(data, at + 1)},
                        upper \in {SortedAt(data, at + 2)}})

\* _percentile(data, percentile): the value returned, or the IndexError raised
percentile_of(data, percentile) ==
  IF data = <<>> THEN [raised |-> FALSE, value |-> FromInt(0)]
  ELSE Only({PercentileAt(data, index) :
               index \in {PercentileIndex(percentile, Len(data))}})

\* no call of _percentile
NoPercentile == [data |-> <<>>, percentile |-> 0, done |-> FALSE, raised |-> FALSE,
                 value |-> FromInt(0)]

\* _percentile(pct.data, pct.percentile) runs
Percentile ==
  /\ ~pct.done
  /\ LET returned == percentile_of(pct.data, pct.percentile)
     IN  pct' = [pct EXCEPT !.done = TRUE, !.raised = returned.raised,
                            !.value = returned.value]
  /\ UNCHANGED <<trackerVars, metricsVars, scopeVars, pure>>

(***************************************************************************)
(* MetricsCollector.  A dict is the function of its keys; a deque is the   *)
(* sequence of its members.  The calls of a thread are taken step by       *)
(* step: the with statement acquires self._lock, the statements of the     *)
(* body follow (an augmented assignment reads, then writes), and leaving   *)
(* the body releases the lock.                                             *)
(***************************************************************************)
DefaultMaxSamples == 10000

ErrorRatesMaxLen == 100

ResponseTimesMaxLen == 1000

DefaultWindowMinutes == 5

\* the names of metrics and endpoints, and the values recorded
MetricNames == {"x"}

\* the endpoints of the record_request calls
Endpoints == {"x", "y"}

MetricValues == {100, 300}

CounterValues == {-1, 1, 2}

\* defaultdict(lambda: deque(maxlen=cap))[name].append(v)
AppendTo(d, name, v, cap) == (name :> DequeAppend(Get(d, name, <<>>), v, cap)) @@ d

\* the keys of the defaultdict d, in order, after d[name]: a key that is not
\* there is inserted last
KeysAfter(keys, d, name) == IF name \in DOMAIN d THEN keys ELSE Append(keys, name)

\* the sum of a list of numbers
RECURSIVE SumByValue(_, _)
SumByValue(values, data) ==
  IF values = {} THEN 0
  ELSE LET v == CHOOSE w \in values : TRUE
       IN  v * Cardinality({j \in 1..Len(data) : data[j] = v})
             + SumByValue(values \ {v}, data)

Sum(data) == SumByValue(Range(data), data)

\* min(data), max(data)
MinOf(data) == CHOOSE v \in Range(data) : \A w \in Range(data) : v <= w

MaxOf(data) == CHOOSE v \in Range(data) : \A w \in Range(data) : w <= v

\* statistics.mean(data)
Mean(data) == FDiv(FromInt(Sum(data)), Len(data))

\* statistics.median(data)
Median(data) ==
  LET n == Len(data)
      i == n \div 2
  IN  IF n % 2 = 1 THEN FromInt(SortedAt(data, i + 1))
      ELSE FDiv(FromInt(SortedAt(data, i) + SortedAt(data, i + 1)), 2)

\* lines 140-152: MetricSummary(...)
MetricSummary(endpoint, times, time) ==
  [name |-> <<endpoint, "_response_time">>,
   count |-> Len(times),
   min_value |-> FromInt(MinOf(times)),
   max_value |-> FromInt(MaxOf(times)),
   avg_value |-> Mean(times),
   median_value |-> Median(times),
   p95_value |-> percentile_of(times, 95).value,
   p99_value |-> percentile_of(times, 99).value,
   last_updated |-> time]

NoSummary == [name |-> <<>>]

\* get_response_time_stats(endpoint), None being NoSummary
get_response_time_stats(endpoint) ==
  IF endpoint \notin DOMAIN response_times \/ response_times[endpoint] = <<>>
  THEN NoSummary
  ELSE Only({MetricSummary(endpoint, times, now) : times \in {response_times[endpoint]}})

get_error_rate_LifetimeErrors(endpoint, window_minutes) ==
  IF endpoint \notin DOMAIN error_rates THEN FromInt(0)
  ELSE LET total_requests == Get(request_counts, endpoint, 0)
       IN  IF total_requests = 0 THEN FromInt(0)
           ELSE FMul(FDiv(FromInt(Len(error_rates[endpoint])), total_requests), 100)

\* get_error_rate(endpoint, window_minutes)
get_error_rate(endpoint, window_minutes) ==
  IF endpoint \notin DOMAIN error_rates THEN FromInt(0)
  ELSE LET current_time == now
           cutoff_time == current_time - Seconds(window_minutes * 60)
           recent == Cardinality({i \in 1..Len(error_rates[endpoint]) :
                                    error_rates[endpoint][i] > cutoff_time})
           total_requests == Get(request_counts, endpoint, 0)
       IN  IF total_requests = 0 THEN FromInt(0)
           ELSE FMul(FDiv(FromInt(recent), total_requests), 100)

\* lines 183-193: the entry of response_time_stats for a summary
StatsEntry(stats) ==
  [count |-> stats.count, min_ms |-> stats.min_value, max_ms |-> stats.max_value,
   avg_ms |-> stats.avg_value, median_ms |-> stats.median_value,
   p95_ms |-> stats.p95_value, p99_ms |-> stats.p99_value]

\* the calls of the threads
IdleCall ==
  [pc |-> "idle", op |-> "", name |-> "", value |-> 0, success |-> TRUE, read |-> 0,
   current_time |-> 0, metrics |-> EmptyDict]

Threads == DOMAIN mtask

\* threading.RLock: free, or held by the thread that asks
LockAvailable_Unlocked(m) == TRUE

LockAvailable(m) == lock.owner \in {0, m}

ledgerUnchanged == UNCHANGED <<inserted, issued, lastStats, lastRate, lastMetrics>>

\* a thread calls op(name, value, success)
Call(m, op, name, value, success) ==
  /\ mtask[m].pc = "idle"
  /\ opsLeft > 0
  /\ opsLeft' = opsLeft - 1
  /\ mtask' = [mtask EXCEPT ![m] = [IdleCall EXCEPT !.pc = "acquire", !.op = op,
                                                    !.name = name, !.value = value,
                                                    !.success = success]]
  /\ UNCHANGED <<collectorVars, lock, inserted, lastStats, lastRate, lastMetrics>>
  /\ UNCHANGED <<trackerVars, pct, scopeVars, pure>>

IssuedCounter(name, value) ==
  [issued EXCEPT !.counters = (name :> (Get(issued.counters, name, 0) + value)) @@ @]

IssuedRequest(endpoint, success) ==
  [issued EXCEPT !.requests = (endpoint :> (Get(issued.requests, endpoint, 0) + 1)) @@ @,
                 !.failures = (endpoint :> (Get(issued.failures, endpoint, 0)
                                              + (IF success THEN 0 ELSE 1))) @@ @]

increment_counter(m) ==
  \E name \in MetricNames, value \in CounterValues :
    /\ Call(m, "increment_counter", name, value, TRUE)
    /\ issued' = IssuedCounter(name, value)

set_gauge(m) ==
  \E name \in MetricNames, value \in MetricValues :
    Call(m, "set_gauge", name, value, TRUE) /\ UNCHANGED issued

record_histogram(m) ==
  \E name \in MetricNames, value \in MetricValues :
    Call(m, "record_histogram", name, value, TRUE) /\ UNCHANGED issued

record_timer(m) ==
  \E name \in MetricNames, duration \in MetricValues :
    Call(m, "record_timer", name, duration, TRUE) /\ UNCHANGED issued

record_request(m) ==
  \E endpoint \in Endpoints, response_time \in MetricValues, success \in BOOLEAN :
    /\ Call(m, "record_request", endpoint, response_time, success)
    /\ issued' = IssuedRequest(endpoint, success)

get_error_rate_call(m) ==
  \E endpoint \in MetricNames :
    Call(m, "get_error_rate", endpoint, DefaultWindowMinutes, TRUE) /\ UNCHANGED issued

get_response_time_stats_call(m) ==
  \E endpoint \in MetricNames :
    Call(m, "get_response_time_stats", endpoint, 0, TRUE) /\ UNCHANGED issued

get_all_metrics(m) ==
  Call(m, "get_all_metrics", "", 0, TRUE) /\ UNCHANGED issued

\* the first statement of the body of each operation
FirstStep(op) ==
  CASE op = "increment_counter" -> "counter_read"
    [] op = "set_gauge" -> "gauge"
    [] op = "record_histogram" -> "histogram"
    [] op = "record_timer" -> "timer"
    [] op = "record_request" -> "request_read"
    [] op = "get_error_rate" -> "error_rate"
    [] op = "get_response_time_stats" -> "stats"
    [] op = "get_all_metrics" -> "metrics_timestamp"

\* with self._lock: the thread waits until the lock is free or its own
AcquireLock(m) ==
  /\ mtask[m].pc = "acquire"
  /\ LockAvailable(m)
  /\ lock' = [owner |-> m, depth |-> lock.depth + 1]
  /\ mtask' = [mtask EXCEPT ![m].pc = FirstStep(mtask[m].op)]
  /\ UNCHANGED <<collectorVars, opsLeft>> /\ ledgerUnchanged
  /\ UNCHANGED <<trackerVars, pct, scopeVars, pure>>

\* a statement of a body: the thread is at pc, and goes on to next
Step(m, pc, next) ==
  /\ mtask[m].pc = pc
  /\ mtask' = [mtask EXCEPT ![m].pc = next]
  /\ UNCHANGED <<lock, opsLeft, max_samples, start_time>>
  /\ UNCHANGED <<trackerVars, pct, scopeVars, pure>>

\* line 78: self.counters[name] += value, the read
CounterRead(m) ==
  /\ mtask[m].pc = "counter_read"
  /\ mtask' = [mtask EXCEPT ![m].pc = "counter_write",
                            ![m].read = Get(counters, mtask[m].name, 0)]
  /\ counters' = (mtask[m].name :> Get(counters, mtask[m].name, 0)) @@ counters
  /\ UNCHANGED <<lock, opsLeft, max_samples, start_time>>
  /\ UNCHANGED <<gauges, histograms, timers, error_counts, error_rates,
                 error_rates_order, request_counts,
                 response_times>>
  /\ ledgerUnchanged
  /\ UNCHANGED <<trackerVars, pct, scopeVars, pure>>

\* line 78: the write
CounterWrite(m) ==
  /\ Step(m, "counter_write", "release")
  /\ counters' = (mtask[m].name :> (mtask[m].read + mtask[m].value)) @@ counters
  /\ UNCHANGED <<gauges, histograms, timers, error_counts, error_rates,
                 error_rates_order, request_counts,
                 response_times>>
  /\ ledgerUnchanged

\* line 85: self.gauges[name] = value
GaugeSet(m) ==
  /\ Step(m, "gauge", "release")
  /\ gauges' = (mtask[m].name :> mtask[m].value) @@ gauges
  /\ UNCHANGED <<counters, histograms, timers, error_counts, error_rates,
                 error_rates_order, request_counts,
                 response_times>>
  /\ ledgerUnchanged

Inserted(kind, name, v) ==
  (<<kind, name>> :> Append(Get(inserted, <<kind, name>>, <<>>), v)) @@ inserted

\* line 92: self.histograms[name].append(value)
HistogramAppend(m) ==
  /\ Step(m, "histogram", "release")
  /\ histograms' = AppendTo(histograms, mtask[m].name, mtask[m].value, max_samples)
  /\ inserted' = Inserted("histograms", mtask[m].name, mtask[m].value)
  /\ UNCHANGED <<counters, gauges, timers, error_counts, error_rates,
                 error_rates_order, request_counts,
                 response_times>>
  /\ UNCHANGED <<issued, lastStats, lastRate, lastMetrics>>

\* line 99: self.timers[name].append(duration)
TimerAppend(m) ==
  /\ Step(m, "timer", "release")
  /\ timers' = AppendTo(timers, mtask[m].name, mtask[m].value, max_samples)
  /\ inserted' = Inserted("timers", mtask[m].name, mtask[m].value)
  /\ UNCHANGED <<counters, gauges, histograms, error_counts, error_rates,
                 error_rates_order, request_counts,
                 response_times>>
  /\ UNCHANGED <<issued, lastStats, lastRate, lastMetrics>>

\* line 106: self.request_counts[endpoint] += 1, the read
RequestCountRead(m) ==
  /\ mtask[m].pc = "request_read"
  /\ mtask' = [mtask EXCEPT ![m].pc = "request_write",
                            ![m].read = Get(request_counts, mtask[m].name, 0)]
  /\ request_counts' = (mtask[m].name :> Get(request_counts, mtask[m].name, 0)) @@ request_counts
  /\ UNCHANGED <<lock, opsLeft, max_samples, start_time>>
  /\ UNCHANGED <<counters, gauges, histograms, timers, error_counts, error_rates, error_rates_order,
                 response_times>>
  /\ ledgerUnchanged
  /\ UNCHANGED <<trackerVars, pct, scopeVars, pure>>

\* line 106: the write
RequestCountWrite(m) ==
  /\ Step(m, "request_write", "response_time")
  /\ request_counts' = (mtask[m].name :> (mtask[m].read + 1)) @@ request_counts
  /\ UNCHANGED <<counters, gauges, histograms, timers, error_counts, error_rates, error_rates_order,
                 response_times>>
  /\ ledgerUnchanged

\* lines 107-109: self.response_times[endpoint].append(response_time); if not success
ResponseTimeAppend(m) ==
  /\ Step(m, "response_time", IF mtask[m].success THEN "release" ELSE "error_read")
  /\ response_times' = AppendTo(response_times, mtask[m].name, mtask[m].value,
                                ResponseTimesMaxLen)
  /\ inserted' = Inserted("response_times", mtask[m].name, mtask[m].value)
  /\ UNCHANGED <<counters, gauges, histograms, timers, error_counts, error_rates, error_rates_order,
                 request_counts>>
  /\ UNCHANGED <<issued, lastStats, lastRate, lastMetrics>>

\* line 110: self.error_counts[endpoint] += 1, the read
ErrorCountRead(m) ==
  /\ mtask[m].pc = "error_read"
  /\ mtask' = [mtask EXCEPT ![m].pc = "error_write",
                            ![m].read = Get(error_counts, mtask[m].name, 0)]
  /\ error_counts' = (mtask[m].name :> Get(error_counts, mtask[m].name, 0)) @@ error_counts
  /\ UNCHANGED <<lock, opsLeft, max_samples, start_time>>
  /\ UNCHANGED <<counters, gauges, histograms, timers, error_rates,
                 error_rates_order, request_counts,
                 response_times>>
  /\ ledgerUnchanged
  /\ UNCHANGED <<trackerVars, pct, scopeVars, pure>>

\* line 110: the write
ErrorCountWrite(m) ==
  /\ Step(m, "error_write", "error_time")
  /\ error_counts' = (mtask[m].name :> (mtask[m].read + 1)) @@ error_counts
  /\ UNCHANGED <<counters, gauges, histograms, timers, error_rates,
                 error_rates_order, request_counts,
                 response_times>>
  /\ ledgerUnchanged

\* line 112: current_time = time.time()
ErrorTimeRead(m) ==
  /\ mtask[m].pc = "error_time"
  /\ mtask' = [mtask EXCEPT ![m].pc = "error_append", ![m].current_time = now]
  /\ UNCHANGED <<collectorVars, lock, opsLeft>> /\ ledgerUnchanged
  /\ UNCHANGED <<trackerVars, pct, scopeVars, pure>>

\* line 113: self.error_rates[endpoint].append(current_time)
ErrorTimeAppend(m) ==
  /\ Step(m, "error_append", "release")
  /\ error_rates' = AppendTo(error_rates, mtask[m].name, mtask[m].current_time,
                             ErrorRatesMaxLen)
  /\ error_rates_order' = KeysAfter(error_rates_order, error_rates, mtask[m].name)
  /\ inserted' = Inserted("error_rates", mtask[m].name, mtask[m].current_time)
  /\ UNCHANGED <<counters, gauges, histograms, timers, error_counts, request_counts,
                 response_times>>
  /\ UNCHANGED <<issued, lastStats, lastRate, lastMetrics>>

\* lines 118-132: the body of get_error_rate
ErrorRate(m) ==
  /\ Step(m, "error_rate", "release")
  /\ lastRate' = [endpoint |-> mtask[m].name,
                  rate |-> get_error_rate(mtask[m].name, mtask[m].value)]
  /\ UNCHANGED <<counters, gauges, histograms, timers, error_counts, error_rates, error_rates_order,
                 request_counts, response_times>>
  /\ UNCHANGED <<inserted, issued, lastStats, lastMetrics>>

\* lines 137-152: the body of get_response_time_stats
ResponseTimeStats(m) ==
  /\ Step(m, "stats", "release")
  /\ lastStats' = [endpoint |-> mtask[m].name,
                   stats |-> get_response_time_stats(mtask[m].name)]
  /\ UNCHANGED <<counters, gauges, histograms, timers, error_counts, error_rates, error_rates_order,
                 request_counts, response_times>>
  /\ UNCHANGED <<inserted, issued, lastRate, lastMetrics>>

\* line 172: "timestamp": time.time()
MetricsTimestamp(m) ==
  /\ mtask[m].pc = "metrics_timestamp"
  /\ mtask' = [mtask EXCEPT ![m].pc = "metrics_dicts", ![m].current_time = now]
  /\ UNCHANGED <<collectorVars, lock, opsLeft>> /\ ledgerUnchanged
  /\ UNCHANGED <<trackerVars, pct, scopeVars, pure>>

\* lines 173-180: the uptime, of a second reading of the clock, and the
\* copies of four dicts
MetricsDicts(m) ==
  /\ mtask[m].pc = "metrics_dicts"
  /\ mtask' = [mtask EXCEPT ![m].pc = "metrics_stats",
                            ![m].metrics = [timestamp |-> mtask[m].current_time,
                                            uptime_seconds |-> now - start_time,
                                            counters |-> counters,
                                            gauges |-> gauges,
                                            request_counts |-> request_counts,
                                            error_counts |-> error_counts,
                                            response_time_stats |-> EmptyDict,
                                            error_rates |-> EmptyDict]]
  /\ UNCHANGED <<collectorVars, lock, opsLeft>> /\ ledgerUnchanged
  /\ UNCHANGED <<trackerVars, pct, scopeVars, pure>>

\* lines 183-194: the statistics of every endpoint that has samples; each
\* get_response_time_stats takes the lock again and gives it back
MetricsStats(m) ==
  /\ mtask[m].pc = "metrics_stats"
  /\ LockAvailable(m)
  /\ LET with_samples == {e \in DOMAIN response_times : response_times[e] # <<>>}
     IN  mtask' = [mtask EXCEPT ![m].pc = "metrics_rates",
                                ![m].metrics.response_time_stats =
                                   [e \in with_samples |->
                                      StatsEntry(get_response_time_stats(e))]]
  /\ UNCHANGED <<collectorVars, lock, opsLeft>> /\ ledgerUnchanged
  /\ UNCHANGED <<trackerVars, pct, scopeVars, pure>>

\* lines 197-200: one turn of the loop over self.error_rates, in the order
\* of its keys: get_error_rate(endpoint) takes the lock again, reads the
\* clock and gives the lock back; after the last turn, return metrics
MetricsRates(m) ==
  /\ mtask[m].pc = "metrics_rates"
  /\ LockAvailable(m)
  /\ LET done == Cardinality(DOMAIN mtask[m].metrics.error_rates)
     IN  IF done < Len(error_rates_order)
         THEN /\ \E endpoint \in {error_rates_order[done + 1]} :
                   mtask' = [mtask EXCEPT ![m].metrics.error_rates =
                               (endpoint :> get_error_rate(endpoint, DefaultWindowMinutes))
                                  @@ @]
              /\ UNCHANGED lastMetrics
         ELSE /\ mtask' = [mtask EXCEPT ![m].pc = "release"]
              /\ lastMetrics' = mtask[m].metrics
  /\ UNCHANGED <<collectorVars, lock, opsLeft>>
  /\ UNCHANGED <<inserted, issued, lastStats, lastRate>>
  /\ UNCHANGED <<trackerVars, pct, scopeVars, pure>>

\* the end of the with statement; the call returns
ReleaseLock(m) ==
  /\ mtask[m].pc = "release"
  /\ lock' = IF lock.depth > 1 THEN [lock EXCEPT !.depth = lock.depth - 1]
             ELSE [owner |-> 0, depth |-> 0]
  /\ mtask' = [mtask EXCEPT ![m] = IdleCall]
  /\ UNCHANGED <<collectorVars, opsLeft>> /\ ledgerUnchanged
  /\ UNCHANGED <<trackerVars, pct, scopeVars, pure>>

NoMetrics == [timestamp |-> 0, uptime_seconds |-> 0, counters |-> EmptyDict,
              gauges |-> EmptyDict, request_counts |-> EmptyDict,
              error_counts |-> EmptyDict, response_time_stats |-> EmptyDict,
              error_rates |-> EmptyDict]

NothingIssued == [counters |-> EmptyDict, requests |-> EmptyDict, failures |-> EmptyDict]

\* MetricsCollector(max_samples), with nthreads threads to call it
CollectorInit(nthreads, samples) ==
  /\ max_samples = samples
  /\ start_time = now
  /\ counters = EmptyDict
  /\ gauges = EmptyDict
  /\ histograms = EmptyDict
  /\ timers = EmptyDict
  /\ error_counts = EmptyDict
  /\ error_rates = EmptyDict
  /\ error_rates_order = <<>>
  /\ request_counts = EmptyDict
  /\ response_times = EmptyDict
  /\ lock = [owner |-> 0, depth |-> 0]
  /\ mtask = [m \in 1..nthreads |-> IdleCall]
  /\ inserted = EmptyDict
  /\ issued = NothingIssued
  /\ lastStats = [endpoint |-> "", stats |-> NoSummary]
  /\ lastRate = [endpoint |-> "", rate |-> FromInt(0)]
  /\ lastMetrics = NoMetrics

\* the operations of the collector
MetricsNext ==
  \/ \E m \in Threads : increment_counter(m)
  \/ \E m \in Threads : set_gauge(m)
  \/ \E m \in Threads : record_histogram(m)
  \/ \E m \in Threads : record_timer(m)
  \/ \E m \in Threads : record_request(m)
  \/ \E m \in Threads : get_error_rate_call(m)
  \/ \E m \in Threads : get_response_time_stats_call(m)
  \/ \E m \in Threads : get_all_metrics(m)
  \/ \E m \in Threads : AcquireLock(m)
  \/ \E m \in Threads : CounterRead(m)
  \/ \E m \in Threads : CounterWrite(m)
  \/ \E m \in Threads : GaugeSet(m)
  \/ \E m \in Threads : HistogramAppend(m)
  \/ \E m \in Threads : TimerAppend(m)
  \/ \E m \in Threads : RequestCountRead(m)
  \/ \E m \in Threads : RequestCountWrite(m)
  \/ \E m \in Threads : ResponseTimeAppend(m)
  \/ \E m \in Threads : ErrorCountRead(m)
  \/ \E m \in Threads : ErrorCountWrite(m)
  \/ \E m \in Threads : ErrorTimeRead(m)
  \/ \E m \in Threads : ErrorTimeAppend(m)
  \/ \E m \in Threads : ErrorRate(m)
  \/ \E m \in Threads : ResponseTimeStats(m)
  \/ \E m \in Threads : MetricsTimestamp(m)
  \/ \E m \in Threads : MetricsDicts(m)
  \/ \E m \in Threads : MetricsStats(m)
  \/ \E m \in Threads : MetricsRates(m)
  \/ \E m \in Threads : ReleaseLock(m)

(***************************************************************************)
(* TimerContext and RequestTracker.track_request: the scopes that time a   *)
(* body and report to the collector.  A scope is entered, its body runs    *)
(* (other scopes may be entered and left meanwhile) and ends by returning  *)
(* or by raising, and the scope is left: it reads the clock, and then calls *)
(* the collector.  The collector's operation is done in one step: it runs  *)
(* under the collector's lock.                                             *)
(***************************************************************************)
\* the scopes that may be open at once, the scopes of a run, its clock ticks
NumScopes == 2

MaxScopes == 3

MaxScopeTicks == 2

\* time.time() counts from 1970: the clock of a run does not start at 0.0
ClockOrigin == 1

\* time.time()
WallClock == ClockOrigin + now

\* (time.time() - start_time) * 1000
Milliseconds(start, end) == ((end - start) * 1000) \div TicksPerSecond

\* how a body ends: it returns, it raises an Exception, or it raises a
\* BaseException that is no Exception (asyncio.CancelledError, when the
\* task is cancelled; KeyboardInterrupt; SystemExit)
BodyOutcomes == {"returned", "raised", "cancelled"}

\* self.start_time: None, or a clock reading
NotStarted == [none |-> TRUE, at |-> 0]

StartedAt(time) == [none |-> FALSE, at |-> time]

\* a scope: outcome is how its body ended, value the time it measured
IdleScope == [pc |-> "idle", kind |-> "", name |-> "", start_time |-> NotStarted,
              outcome |-> "", value |-> 0]

Scopes == DOMAIN scope

\* the scopes entered so far
Entered == Len(scopeLog) + Cardinality({s \in Scopes : scope[s].pc # "idle"})

\* lines 213-221, 240-241: the scope is made and entered
Enter(s, kind, name) ==
  /\ scope[s].pc = "idle"
  /\ Entered < MaxScopes
  /\ scope' = [scope EXCEPT ![s] = [IdleScope EXCEPT !.pc = "body", !.kind = kind,
                                                     !.name = name,
                                                     !.start_time = StartedAt(WallClock)]]
  /\ UNCHANGED <<scopeLog, trackerVars, pct, metricsVars, pure>>

\* with TimerContext(collector, name):
TimerEnter(s) == \E name \in MetricNames : Enter(s, "timer", name)

\* await wrapper(...), wrapper made by track_request(endpoint)
RequestEnter(s) == \E endpoint \in MetricNames : Enter(s, "request", endpoint)

Truthy_OnlyOnReturn(started, outcome) == ~started.none /\ outcome = "returned"

\* line 224: if self.start_time (None and 0.0 are false), however the body ended
Truthy(started, outcome) == ~started.none /\ started.at # 0

\* line 223-226: __exit__ returns None, so what the body raised goes on
Propagates(outcome) == outcome # "returned"

\* what a scope that is left did
Left(s, calls) ==
  [kind |-> scope[s].kind, name |-> scope[s].name, outcome |-> scope[s].outcome,
   calls |-> calls, value |-> scope[s].value,
   success |-> scope[s].kind = "timer" \/ scope[s].outcome # "raised",
   propagated |-> Propagates(scope[s].outcome)]

\* lines 223-225: the body ended and __exit__ runs: the test of start_time
\* and the duration, of the clock read at line 225
TimerExit(s) ==
  \E outcome \in BodyOutcomes :
    /\ scope[s].pc = "body"
    /\ scope[s].kind = "timer"
    /\ scope' = [scope EXCEPT
                   ![s].pc = IF Truthy(scope[s].start_time, outcome) THEN "record"
                             ELSE "leave",
                   ![s].outcome = outcome,
                   ![s].value = IF Truthy(scope[s].start_time, outcome)
                                THEN Milliseconds(scope[s].start_time.at, WallClock)
                                ELSE 0]
    /\ UNCHANGED <<scopeLog, trackerVars, pct, metricsVars, pure>>

\* line 226: the whole of record_timer (lines 96-101), under the collector's
\* lock, and the return of __exit__
TimerRecord(s) ==
  /\ scope[s].pc \in {"record", "leave"}
  /\ scope[s].kind = "timer"
  /\ IF scope[s].pc = "record"
     THEN /\ lock.owner = 0
          /\ timers' = AppendTo(timers, scope[s].name, scope[s].value, max_samples)
          /\ inserted' = Inserted("timers", scope[s].name, scope[s].value)
          /\ scopeLog' = Append(scopeLog, Left(s, 1))
     ELSE /\ UNCHANGED <<timers, inserted>>
          /\ scopeLog' = Append(scopeLog, Left(s, 0))
  /\ scope' = [scope EXCEPT ![s] = IdleScope]
  /\ UNCHANGED <<max_samples, start_time, counters, gauges, histograms,
                 error_counts, error_rates, error_rates_order, request_counts,
                 response_times>>
  /\ UNCHANGED <<lock, mtask, issued, lastStats, lastRate, lastMetrics, opsLeft>>
  /\ UNCHANGED <<trackerVars, pct, pure>>

\* lines 245-247: except Exception handles the exceptions that are Exceptions
Handled(outcome) == outcome = "raised"

\* lines 242-249: the body ended: success, and in the finally block the
\* response time, of the clock read at line 249
RequestExit(s) ==
  \E outcome \in BodyOutcomes :
    /\ scope[s].pc = "body"
    /\ scope[s].kind = "request"
    /\ scope' = [scope EXCEPT
                   ![s].pc = "record",
                   ![s].outcome = outcome,
                   ![s].value = Milliseconds(scope[s].start_time.at, WallClock)]
    /\ UNCHANGED <<scopeLog, trackerVars, pct, metricsVars, pure>>

\* line 250: the whole of record_request (lines 103-113), under the
\* collector's lock, with the clock it reads at line 112; and the return or
\* the re-raise
RequestRecord(s) ==
  LET endpoint == scope[s].name
      success == ~Handled(scope[s].outcome)
      response_time == scope[s].value
  IN  /\ scope[s].pc = "record"
      /\ scope[s].kind = "request"
      /\ lock.owner = 0
      /\ request_counts' = (endpoint :> (Get(request_counts, endpoint, 0) + 1))
                              @@ request_counts
      /\ response_times' = AppendTo(response_times, endpoint, response_time,
                                    ResponseTimesMaxLen)
      /\ error_counts' = IF success THEN error_counts
                         ELSE (endpoint :> (Get(error_counts, endpoint, 0) + 1))
                                 @@ error_counts
      /\ error_rates' = IF success THEN error_rates
                        ELSE AppendTo(error_rates, endpoint, now, ErrorRatesMaxLen)
      /\ error_rates_order' = IF success THEN error_rates_order
                              ELSE KeysAfter(error_rates_order, error_rates, endpoint)
      /\ inserted' =
           (<<"response_times", endpoint>> :>
              Append(Get(inserted, <<"response_times", endpoint>>, <<>>), response_time))
           @@ (IF success THEN inserted ELSE Inserted("error_rates", endpoint, now))
      /\ issued' = IssuedRequest(endpoint, success)
      /\ scopeLog' = Append(scopeLog, Left(s, 1))
      /\ scope' = [scope EXCEPT ![s] = IdleScope]
      /\ UNCHANGED <<max_samples, start_time, counters, gauges, histograms, timers>>
      /\ UNCHANGED <<lock, mtask, lastStats, lastRate, lastMetrics, opsLeft>>
      /\ UNCHANGED <<trackerVars, pct, pure>>

\* no scope
NoScopes ==
  /\ scope = [s \in {} |-> IdleScope]
  /\ scopeLog = <<>>

(***************************************************************************)
(* Calls of the pure functions categorize_error and determine_severity.    *)
(***************************************************************************)
NoCall ==
  [fn |-> "", exception |-> [type |-> <<>>, msg |-> <<>>], context |-> EmptyDict,
   category |-> UNKNOWN, error_count |-> 0, done |-> FALSE, result |-> ""]

\* lines 136-175
Categorize ==
  /\ pure.fn = "categorize_error"
  /\ ~pure.done
  /\ pure' = [pure EXCEPT !.done = TRUE,
                          !.result = categorize_error(pure.exception, pure.context)]
  /\ UNCHANGED <<trackerVars, pct, metricsVars, scopeVars>>

\* lines 177-191
Severity ==
  /\ pure.fn = "determine_severity"
  /\ ~pure.done
  /\ pure' = [pure EXCEPT !.done = TRUE,
                          !.result = determine_severity(pure.category, pure.error_count,
                                                        pure.context)]
  /\ UNCHANGED <<trackerVars, pct, metricsVars, scopeVars>>

(***************************************************************************)
(* ErrorTracker.acknowledge_alert and resolve_alert.  Both are plain       *)
(* methods: on an event loop one runs while no coroutine does, between     *)
(* two calls of track_error or while one awaits its webhook request.       *)
(***************************************************************************)
MaxAlertOps == 3

\* an id no alert was stored under
UnknownId == <<"no_such_alert", 0>>

\* the ids a caller may name
AlertIdInputs == DOMAIN alerts \cup {UnknownId}

acknowledge_alert_Toggle(stored, alert_id) ==
  IF alert_id \in DOMAIN stored
  THEN [stored EXCEPT ![alert_id].acknowledged = ~stored[alert_id].acknowledged]
  ELSE stored

\* lines 396-399: self.alerts after acknowledge_alert(alert_id)
acknowledge_alert(stored, alert_id) ==
  IF alert_id \in DOMAIN stored
  THEN [stored EXCEPT ![alert_id].acknowledged = TRUE]
  ELSE stored

\* lines 401-404: self.alerts after resolve_alert(alert_id)
resolve_alert(stored, alert_id) ==
  IF alert_id \in DOMAIN stored
  THEN [stored EXCEPT ![alert_id].resolved = TRUE]
  ELSE stored

\* a call of one of the two methods
AlertOp(op, alert_id, result) ==
  /\ sched = "threads" \/ running = 0
  /\ Len(opLog) < MaxAlertOps
  /\ \E after \in {result} :
       /\ alerts' = after
       /\ opLog' = Append(opLog, [op |-> op, alert_id |-> alert_id,
                                  before |-> alerts, after |-> after])
  /\ UNCHANGED <<heap, errors, recent_errors, last_alert_times, now, task, running,
                 callLog, alertLog, lastPrune, recentLog, sendLog, returnLog>>
  /\ boundsUnchanged /\ fixedUnchanged

AcknowledgeAlert ==
  \E alert_id \in AlertIdInputs :
    AlertOp("acknowledge_alert", alert_id, acknowledge_alert(alerts, alert_id))

ResolveAlert ==
  \E alert_id \in AlertIdInputs :
    AlertOp("resolve_alert", alert_id, resolve_alert(alerts, alert_id))

NoPrune == [over |-> FALSE, error_id |-> <<>>, before |-> 0, removed |-> <<>>, kept |-> <<>>]

\* a tracker as constructed, with nprocs call slots (the clock apart)
TrackerWith(nprocs, mode, rules) ==
  /\ heap = EmptyDict
  /\ errors = <<>>
  /\ recent_errors = <<>>
  /\ alerts = EmptyDict
  /\ alert_rules = rules
  /\ last_alert_times = EmptyDict
  /\ task = [t \in 1..nprocs |-> IdleTask]
  /\ running = 0
  /\ sched = mode
  /\ callLog = <<>>
  /\ sendLog = <<>>
  /\ opLog = <<>>
  /\ returnLog = <<>>
  /\ alertLog = <<>>
  /\ lastPrune = NoPrune
  /\ recentLog = <<>>

\* ErrorTracker(), with its default rules
TrackerInit(nprocs, mode) == TrackerWith(nprocs, mode, DefaultRules)

(***************************************************************************)
(* Spec: track_error calls of one caller, each complete before the next.   *)
(***************************************************************************)
Init ==
  /\ TrackerInit(1, "loop")
  /\ now = 0
  /\ max_errors \in 1..MaxMaxErrors
  /\ config \in {[webhook_url |-> FALSE], [webhook_url |-> TRUE]}
  /\ callsLeft = MaxCalls
  /\ ticksLeft = MaxTicks
  /\ pct = NoPercentile
  /\ CollectorInit(0, DefaultMaxSamples)
  /\ opsLeft = 0
  /\ NoScopes
  /\ pure = NoCall

\* the steps of track_error calls, and of the clock
TrackNext ==
  \/ Tick
  \/ \E t \in Procs : TrackError(t)
  \/ \E t \in Procs : TestKnown(t)
  \/ \E t \in Procs : UpdateRead(t)
  \/ \E t \in Procs : UpdateWrite(t)
  \/ \E t \in Procs : CreateEvent(t)
  \/ \E t \in Procs : UpdateSeverity(t)
  \/ \E t \in Procs : CheckAlertConditions(t)
  \/ \E t \in Procs : BuildSnapshot(t)
  \/ \E t \in Procs : EvaluateRule(t)
  \/ \E t \in Procs : ReadAlertId(t)
  \/ \E t \in Procs : CreateAlert(t)
  \/ \E t \in Procs : SendAlert(t)
  \/ \E t \in Procs : WebhookDone(t)
  \/ \E t \in Procs : RecordAlertTime(t)
  \/ \E t \in Procs : Prune(t)

Next == TrackNext \/ ConfigureAlerts

Spec == Init /\ [][Next]_vars

(***************************************************************************)
(* SpecPrune: track_error calls on a tracker that is full: max_errors      *)
(* distinct errors Exception("e1"), Exception("e2"), ... were tracked      *)
(* before, 6 seconds apart (so that no rule fired), in one of two          *)
(* histories.                                                              *)
(***************************************************************************)
\* the gap between two of the earlier calls
EarlierGap == Seconds(6)

\* the time of the first call for the i-th earlier error
\*   "reversed": one call every 6 seconds
\*   "paired": two calls at the same clock reading every 12 seconds
FirstSeen(pattern, i) ==
  IF pattern = "paired" THEN EarlierGap * 2 * ((i + 1) \div 2) ELSE EarlierGap * i

\* the time of its last call: in "reversed" every error recurred once, the
\* last tracked first
LastSeen(pattern, n, i) ==
  IF pattern = "reversed" THEN EarlierGap * (2 * n + 1 - i) ELSE FirstSeen(pattern, i)

EarlierEvent(pattern, n, i) ==
  LET exception == EarlierException(i)
      category == categorize_error(exception, EmptyDict)
      created == ErrorEventOf(exception, EmptyDict,
                              generate_error_id(exception, EmptyDict).result,
                              category, FirstSeen(pattern, i))
  IN  IF pattern = "reversed"
      THEN [created EXCEPT !.count = NextCount(created.count),
                           !.last_seen = LastSeen(pattern, n, i),
                           !.severity = determine_severity(category, NextCount(created.count),
                                                           EmptyDict)]
      ELSE created

EarlierRecent(pattern, n) ==
  LET rec(i, time) ==
        RecentRecord(EarlierException(i),
                     generate_error_id(EarlierException(i), EmptyDict).result,
                     categorize_error(EarlierException(i), EmptyDict), time)
      firsts == [i \in 1..n |-> rec(i, FirstSeen(pattern, i))]
      seconds == [k \in 1..n |-> rec(n + 1 - k, LastSeen(pattern, n, n + 1 - k))]
  IN  IF pattern = "reversed" THEN firsts \o seconds ELSE firsts

\* the sizes of the full trackers
PruneSizes == {MaxMaxErrors, PruneCount - 1 + MaxMaxErrors}

MaxPruneCalls == 2

MaxPruneTicks == 1

InitPrune ==
  \E n \in PruneSizes, pattern \in {"reversed", "paired"} :
    /\ max_errors = n
    /\ heap = [i \in 1..n |-> EarlierEvent(pattern, n, i)]
    /\ errors = [i \in 1..n |-> i]
    /\ recent_errors = EarlierRecent(pattern, n)
    /\ alerts = EmptyDict
    /\ alert_rules = DefaultRules
    /\ last_alert_times = EmptyDict
    /\ now = IF pattern = "reversed" THEN LastSeen(pattern, n, 1) ELSE LastSeen(pattern, n, n)
    /\ task = [t \in 1..1 |-> IdleTask]
    /\ running = 0
    /\ sched = "loop"
    /\ callLog = <<>>
    /\ sendLog = <<>>
    /\ opLog = <<>>
    /\ returnLog = <<>>
    /\ alertLog = <<>>
    /\ lastPrune = NoPrune
    /\ recentLog = EarlierRecent(pattern, n)
    /\ pct = NoPercentile
    /\ CollectorInit(0, DefaultMaxSamples)
    /\ opsLeft = 0
    /\ NoScopes
    /\ pure = NoCall
    /\ config \in {[webhook_url |-> FALSE], [webhook_url |-> TRUE]}
    /\ callsLeft = MaxPruneCalls
    /\ ticksLeft = MaxPruneTicks

SpecPrune == InitPrune /\ [][TrackNext]_vars

(***************************************************************************)
(* SpecThreads: track_error calls on one tracker from two threads, each    *)
(* on an event loop of its own.  ErrorTracker takes no lock, so the steps  *)
(* of the two calls interleave freely, a step being one access to what the *)
(* calls share (a field of the tracker or of an event, the clock).         *)
(* No webhook is configured (the default), so no call awaits a request.    *)
(* max_errors is the default, or 0 (every call then prunes).               *)
(***************************************************************************)
NumThreads == 2

MaxThreadCalls == 2

MaxThreadTicks == 1

InitThreads ==
  /\ TrackerInit(NumThreads, "threads")
  /\ now = 0
  /\ max_errors \in {0, DefaultMaxErrors}
  /\ config = [webhook_url |-> FALSE]
  /\ callsLeft = MaxThreadCalls
  /\ ticksLeft = MaxThreadTicks
  /\ pct = NoPercentile
  /\ CollectorInit(0, DefaultMaxSamples)
  /\ opsLeft = 0
  /\ NoScopes
  /\ pure = NoCall

\* the steps of the calls (ReadCount, StoreLastSeen, StoreSeverity,
\* AppendRecent, MakeIterator, IterateRecent, BuildContext, StoreAlert,
\* PruneSort, PruneKey and PruneDelete are the steps that other calls can
\* come between only with threads), and the clock
NextThreads ==
  \/ \E t \in Procs : TrackError(t)
  \/ \E t \in Procs : TestKnown(t)
  \/ \E t \in Procs : UpdateRead(t)
  \/ \E t \in Procs : ReadCount(t)
  \/ \E t \in Procs : UpdateWrite(t)
  \/ \E t \in Procs : StoreLastSeen(t)
  \/ \E t \in Procs : CreateEvent(t)
  \/ \E t \in Procs : UpdateSeverity(t)
  \/ \E t \in Procs : StoreSeverity(t)
  \/ \E t \in Procs : AppendRecent(t)
  \/ \E t \in Procs : CheckAlertConditions(t)
  \/ \E t \in Procs : BuildSnapshot(t)
  \/ \E t \in Procs : MakeIterator(t)
  \/ \E t \in Procs : IterateRecent(t)
  \/ \E t \in Procs : BuildContext(t)
  \/ \E t \in Procs : EvaluateRule(t)
  \/ \E t \in Procs : ReadAlertId(t)
  \/ \E t \in Procs : CreateAlert(t)
  \/ \E t \in Procs : StoreAlert(t)
  \/ \E t \in Procs : SendAlert(t)
  \/ \E t \in Procs : RecordAlertTime(t)
  \/ \E t \in Procs : Prune(t)
  \/ \E t \in Procs : PruneSort(t)
  \/ \E t \in Procs : PruneKey(t)
  \/ \E t \in Procs : PruneDelete(t)
  \/ Tick

SpecThreads == InitThreads /\ [][NextThreads]_vars

(***************************************************************************)
(* SpecPercentile: one call of _percentile, on a list of up to             *)
(* MaxSamplesLen samples 10, 20, ... in ascending, descending or mixed     *)
(* order (or all equal), with a whole percentile.                          *)
(***************************************************************************)
MaxSamplesLen == 26

SampleStep == 10

SampleLists ==
  UNION {{[i \in 1..n |-> SampleStep * i],
          [i \in 1..n |-> SampleStep * (n + 1 - i)],
          [i \in 1..n |-> SampleStep * (((i * 7) % n) + 1)],
          [i \in 1..n |-> SampleStep]} : n \in 1..MaxSamplesLen}

Percentiles == 0..100

InitPercentile ==
  /\ TrackerInit(0, "loop")
  /\ now = 0
  /\ max_errors = DefaultMaxErrors
  /\ config = [webhook_url |-> FALSE]
  /\ callsLeft = 0
  /\ ticksLeft = 0
  /\ pct \in {[NoPercentile EXCEPT !.data = data, !.percentile = percentile] :
                data \in SampleLists, percentile \in Percentiles}
  /\ CollectorInit(0, DefaultMaxSamples)
  /\ opsLeft = 0
  /\ NoScopes
  /\ pure = NoCall

NextPercentile == Percentile

SpecPercentile == InitPercentile /\ [][NextPercentile]_vars

(***************************************************************************)
(* SpecCollector: threads call one MetricsCollector().                     *)
(***************************************************************************)
NumCollectorThreads == 2

MaxOps == 3

MaxCollectorTicks == 1

InitCollector ==
  /\ TrackerInit(0, "threads")
  /\ now = 0
  /\ max_errors = DefaultMaxErrors
  /\ config = [webhook_url |-> FALSE]
  /\ callsLeft = 0
  /\ ticksLeft = MaxCollectorTicks
  /\ pct = NoPercentile
  /\ CollectorInit(NumCollectorThreads, DefaultMaxSamples)
  /\ opsLeft = MaxOps
  /\ NoScopes
  /\ pure = NoCall

NextCollector == Tick \/ MetricsNext

SpecCollector == InitCollector /\ [][NextCollector]_vars

(***************************************************************************)
(* SpecBuffers: calls on a tracker, or on a collector, whose buffers are   *)
(* full or one short of full.  The tracker has seen the same               *)
(* ValueError("bad value") every 6 seconds (no rule fired); the collector, *)
(* made with a small max_samples, has seen a request every 6 seconds,      *)
(* every tenth one failing, and as many timer and histogram samples as     *)
(* fill their buffers.                                                     *)
(***************************************************************************)
MaxMaxSamples == 2

MaxBufferCalls == 2

MaxBufferOps == 3

MaxBufferTicks == 1

\* how many members the buffers are short of full
BufferSlack == {0, 1}

\* the event of n calls with RepeatedException, the i-th at 6 * i seconds
RepeatedEvent(n) ==
  LET category == categorize_error(RepeatedException, EmptyDict)
      created == ErrorEventOf(RepeatedException, EmptyDict,
                              generate_error_id(RepeatedException, EmptyDict).result,
                              category, EarlierGap)
  IN  [created EXCEPT !.count = n,
                      !.last_seen = EarlierGap * n,
                      !.severity = determine_severity(category, n, EmptyDict)]

RepeatedRecent(n) ==
  [i \in 1..n |-> RecentRecord(RepeatedException,
                               generate_error_id(RepeatedException, EmptyDict).result,
                               categorize_error(RepeatedException, EmptyDict),
                               EarlierGap * i)]

\* the i-th earlier request: its response time, and whether it failed
EarlierResponseTime(i) == IF i % 2 = 0 THEN 300 ELSE 100

EarlierFailureEvery == 10

InitFullTracker ==
  \E slack \in BufferSlack :
    LET n == RecentErrorsMaxLen - slack
    IN  /\ max_errors = DefaultMaxErrors
        /\ heap = [i \in 1..1 |-> RepeatedEvent(n)]
        /\ errors = <<1>>
        /\ recent_errors = RepeatedRecent(n)
        /\ recentLog = RepeatedRecent(n)
        /\ alerts = EmptyDict
        /\ alert_rules = DefaultRules
        /\ last_alert_times = EmptyDict
        /\ now = EarlierGap * n
        /\ task = [t \in 1..1 |-> IdleTask]
        /\ running = 0
        /\ sched = "loop"
        /\ callLog = <<>>
        /\ sendLog = <<>>
        /\ opLog = <<>>
        /\ returnLog = <<>>
        /\ alertLog = <<>>
        /\ lastPrune = NoPrune
        /\ config = [webhook_url |-> TRUE]
        /\ callsLeft = MaxBufferCalls
        /\ ticksLeft = MaxBufferTicks
        /\ pct = NoPercentile
        /\ CollectorInit(0, DefaultMaxSamples)
        /\ opsLeft = 0
        /\ NoScopes
        /\ pure = NoCall

InitFullCollector ==
  \E slack \in BufferSlack, samples \in 1..MaxMaxSamples, endpoint \in MetricNames :
    LET n == ResponseTimesMaxLen - slack
        failures == n \div EarlierFailureEvery
        times == [i \in 1..n |-> EarlierResponseTime(i)]
        failed == [k \in 1..failures |-> EarlierGap * EarlierFailureEvery * k]
        sampled == [i \in 1..(samples - slack) |-> EarlierResponseTime(i)]
        windows == IF sampled = <<>> THEN EmptyDict ELSE (endpoint :> sampled)
    IN  /\ TrackerInit(0, "loop")
        /\ now = EarlierGap * n + ShortTick
        /\ max_errors = DefaultMaxErrors
        /\ config = [webhook_url |-> TRUE]
        /\ callsLeft = 0
        /\ ticksLeft = 0
        /\ pct = NoPercentile
        /\ max_samples = samples
        /\ start_time = 0
        /\ counters = EmptyDict
        /\ gauges = EmptyDict
        /\ histograms = windows
        /\ timers = windows
        /\ error_counts = (endpoint :> failures)
        /\ error_rates = (endpoint :> failed)
        /\ error_rates_order = <<endpoint>>
        /\ request_counts = (endpoint :> n)
        /\ response_times = (endpoint :> times)
        /\ lock = [owner |-> 0, depth |-> 0]
        /\ mtask = [m \in 1..1 |-> IdleCall]
        /\ inserted = (<<"response_times", endpoint>> :> times)
                         @@ (<<"error_rates", endpoint>> :> failed)
                         @@ (IF sampled = <<>> THEN EmptyDict
                             ELSE (<<"timers", endpoint>> :> sampled)
                                    @@ (<<"histograms", endpoint>> :> sampled))
        /\ issued = [counters |-> EmptyDict, requests |-> (endpoint :> n),
                     failures |-> (endpoint :> failures)]
        /\ lastStats = [endpoint |-> "", stats |-> NoSummary]
        /\ lastRate = [endpoint |-> "", rate |-> FromInt(0)]
        /\ lastMetrics = NoMetrics
        /\ opsLeft = MaxBufferOps
        /\ NoScopes
        /\ pure = NoCall

InitBuffers == InitFullTracker \/ InitFullCollector

NextBuffers == TrackNext \/ MetricsNext

SpecBuffers == InitBuffers /\ [][NextBuffers]_vars

(***************************************************************************)
(* SpecTasks: track_error calls as tasks of one event loop (as             *)
(* PersistentLogger.log_error makes them with asyncio.create_task): a call *)
(* runs until it awaits its webhook request, and then another may start.   *)
(***************************************************************************)
NumTasks == 2

MaxTaskCalls == 2

MaxTaskTicks == 1

InitTasks ==
  /\ TrackerInit(NumTasks, "loop")
  /\ now = 0
  /\ max_errors = DefaultMaxErrors
  /\ config \in {[webhook_url |-> FALSE], [webhook_url |-> TRUE]}
  /\ callsLeft = MaxTaskCalls
  /\ ticksLeft = MaxTaskTicks
  /\ pct = NoPercentile
  /\ CollectorInit(0, DefaultMaxSamples)
  /\ opsLeft = 0
  /\ NoScopes
  /\ pure = NoCall

SpecTasks == InitTasks /\ [][Next]_vars

(***************************************************************************)
(* SpecUnanswered: the same tasks, with what the event loop guarantees: a  *)
(* call that can take a step takes one.  Nothing makes a webhook request   *)
(* end (_send_webhook_alert sets no timeout): a sink may never answer.     *)
(***************************************************************************)
\* the steps a started call takes by itself
CallStep(t) ==
  \/ TestKnown(t) \/ UpdateRead(t) \/ UpdateWrite(t) \/ CreateEvent(t)
  \/ UpdateSeverity(t) \/ CheckAlertConditions(t) \/ BuildSnapshot(t)
  \/ EvaluateRule(t) \/ ReadAlertId(t) \/ CreateAlert(t) \/ SendAlert(t)
  \/ RecordAlertTime(t) \/ Prune(t)

SpecUnanswered ==
  InitTasks /\ [][Next]_vars /\ \A t \in 1..NumTasks : WF_vars(CallStep(t))

(***************************************************************************)
(* SpecScopes: TimerContext scopes and calls of functions wrapped by       *)
(* track_request, on one MetricsCollector() that nothing else calls.       *)
(***************************************************************************)
InitScopes ==
  /\ TrackerInit(0, "loop")
  /\ now = 0
  /\ max_errors = DefaultMaxErrors
  /\ config = [webhook_url |-> FALSE]
  /\ callsLeft = 0
  /\ ticksLeft = MaxScopeTicks
  /\ pct = NoPercentile
  /\ CollectorInit(0, DefaultMaxSamples)
  /\ opsLeft = 0
  /\ scope = [s \in 1..NumScopes |-> IdleScope]
  /\ scopeLog = <<>>
  /\ pure = NoCall

NextScopes ==
  \/ Tick
  \/ \E s \in Scopes : TimerEnter(s)
  \/ \E s \in Scopes : TimerExit(s)
  \/ \E s \in Scopes : TimerRecord(s)
  \/ \E s \in Scopes : RequestEnter(s)
  \/ \E s \in Scopes : RequestExit(s)
  \/ \E s \in Scopes : RequestRecord(s)

SpecScopes == InitScopes /\ [][NextScopes]_vars

(***************************************************************************)
(* SpecAlerts: track_error calls of one caller, several of them for        *)
(* different errors of the same category, with acknowledge_alert and       *)
(* resolve_alert calls between them.                                       *)
(***************************************************************************)
MaxAlertCalls == 2

MaxAlertTicks == 1

TrackAlerting(t) == Track(t, AlertInputs)

InitAlerts ==
  /\ TrackerInit(1, "loop")
  /\ now = 0
  /\ max_errors = DefaultMaxErrors
  /\ config \in {[webhook_url |-> FALSE], [webhook_url |-> TRUE]}
  /\ callsLeft = MaxAlertCalls
  /\ ticksLeft = MaxAlertTicks
  /\ pct = NoPercentile
  /\ CollectorInit(0, DefaultMaxSamples)
  /\ opsLeft = 0
  /\ NoScopes
  /\ pure = NoCall

NextAlerts ==
  \/ Tick
  \/ AcknowledgeAlert
  \/ ResolveAlert
  \/ \E t \in Procs : TrackAlerting(t)
  \/ \E t \in Procs : TestKnown(t)
  \/ \E t \in Procs : UpdateRead(t)
  \/ \E t \in Procs : UpdateWrite(t)
  \/ \E t \in Procs : CreateEvent(t)
  \/ \E t \in Procs : UpdateSeverity(t)
  \/ \E t \in Procs : CheckAlertConditions(t)
  \/ \E t \in Procs : BuildSnapshot(t)
  \/ \E t \in Procs : EvaluateRule(t)
  \/ \E t \in Procs : ReadAlertId(t)
  \/ \E t \in Procs : CreateAlert(t)
  \/ \E t \in Procs : SendAlert(t)
  \/ \E t \in Procs : WebhookDone(t)
  \/ \E t \in Procs : RecordAlertTime(t)
  \/ \E t \in Procs : Prune(t)

SpecAlerts == InitAlerts /\ [][NextAlerts]_vars

(***************************************************************************)
(* SpecRules: track_error calls of one caller on a tracker whose rules are *)
(* the default ones, or those with one rule switched off (AlertRule.enabled *)
(* set to False).                                                          *)
(***************************************************************************)
MaxRuleCalls == 3

MaxRuleTicks == 2

\* the rules, with the rule of that name switched off
Disabled(rules, name) ==
  [i \in DOMAIN rules |->
     IF rules[i].name = name THEN [rules[i] EXCEPT !.enabled = FALSE] ELSE rules[i]]

InitRules ==
  /\ \E rules \in {DefaultRules, Disabled(DefaultRules, "critical_system_error")} :
       TrackerWith(1, "loop", rules)
  /\ now = 0
  /\ max_errors = DefaultMaxErrors
  /\ config \in {[webhook_url |-> FALSE], [webhook_url |-> TRUE]}
  /\ callsLeft = MaxRuleCalls
  /\ ticksLeft = MaxRuleTicks
  /\ pct = NoPercentile
  /\ CollectorInit(0, DefaultMaxSamples)
  /\ opsLeft = 0
  /\ NoScopes
  /\ pure = NoCall

SpecRules == InitRules /\ [][Next]_vars

(***************************************************************************)
(* SpecContexts: track_error calls of one caller that report the same      *)
(* exception from the same function with different contexts (a failure     *)
(* count that grows, no source, a failure count that is not a number),     *)
(* exceptions whose message or function name contains a colon, and two     *)
(* exceptions whose signatures have the same MD5 prefix; on                *)
(* ErrorTracker(), or on ErrorTracker(max_errors=1).                       *)
(***************************************************************************)
MaxContextCalls == 4

MaxContextTicks == 1

TrackContext(t) == Track(t, ContextInputs)

InitContexts ==
  /\ TrackerInit(1, "loop")
  /\ now = 0
  /\ max_errors \in {1, DefaultMaxErrors}
  /\ config = [webhook_url |-> FALSE]
  /\ callsLeft = MaxContextCalls
  /\ ticksLeft = MaxContextTicks
  /\ pct = NoPercentile
  /\ CollectorInit(0, DefaultMaxSamples)
  /\ opsLeft = 0
  /\ NoScopes
  /\ pure = NoCall

NextContexts ==
  \/ Tick
  \/ \E t \in Procs : TrackContext(t)
  \/ \E t \in Procs : TestKnown(t)
  \/ \E t \in Procs : UpdateRead(t)
  \/ \E t \in Procs : UpdateWrite(t)
  \/ \E t \in Procs : CreateEvent(t)
  \/ \E t \in Procs : UpdateSeverity(t)
  \/ \E t \in Procs : CheckAlertConditions(t)
  \/ \E t \in Procs : BuildSnapshot(t)
  \/ \E t \in Procs : EvaluateRule(t)
  \/ \E t \in Procs : ReadAlertId(t)
  \/ \E t \in Procs : CreateAlert(t)
  \/ \E t \in Procs : SendAlert(t)
  \/ \E t \in Procs : RecordAlertTime(t)
  \/ \E t \in Procs : Prune(t)

SpecContexts == InitContexts /\ [][NextContexts]_vars

(***************************************************************************)
(* SpecSignatures: track_error calls of one caller, each complete before   *)
(* the next, that report the errors of Spec and an error whose message     *)
(* holds a lone surrogate; on ErrorTracker(), or on                        *)
(* ErrorTracker(max_errors=1).                                             *)
(***************************************************************************)
MaxSignatureCalls == 3

MaxSignatureTicks == 1

TrackSignature(t) == Track(t, SignatureInputs)

InitSignatures ==
  /\ TrackerInit(1, "loop")
  /\ now = 0
  /\ max_errors \in {1, DefaultMaxErrors}
  /\ config = [webhook_url |-> FALSE]
  /\ callsLeft = MaxSignatureCalls
  /\ ticksLeft = MaxSignatureTicks
  /\ pct = NoPercentile
  /\ CollectorInit(0, DefaultMaxSamples)
  /\ opsLeft = 0
  /\ NoScopes
  /\ pure = NoCall

NextSignatures ==
  \/ Tick
  \/ \E t \in Procs : TrackSignature(t)
  \/ \E t \in Procs : TestKnown(t)
  \/ \E t \in Procs : UpdateRead(t)
  \/ \E t \in Procs : UpdateWrite(t)
  \/ \E t \in Procs : CreateEvent(t)
  \/ \E t \in Procs : UpdateSeverity(t)
  \/ \E t \in Procs : CheckAlertConditions(t)
  \/ \E t \in Procs : BuildSnapshot(t)
  \/ \E t \in Procs : EvaluateRule(t)
  \/ \E t \in Procs : ReadAlertId(t)
  \/ \E t \in Procs : CreateAlert(t)
  \/ \E t \in Procs : SendAlert(t)
  \/ \E t \in Procs : RecordAlertTime(t)
  \/ \E t \in Procs : Prune(t)

SpecSignatures == InitSignatures /\ [][NextSignatures]_vars

(***************************************************************************)
(* SpecPure: one call of categorize_error, on an exception whose type name *)
(* and message match the keywords of none, one or several categories, or   *)
(* one call of determine_severity.                                         *)
(***************************************************************************)
ExceptionTypes ==
  { <<"C","o","n","n","e","c","t","i","o","n","E","r","r","o","r">>,
    <<"P","e","r","m","i","s","s","i","o","n","E","r","r","o","r">>,
    <<"T","i","m","e","o","u","t","E","r","r","o","r">>,
    <<"V","a","l","u","e","E","r","r","o","r">>,
    <<"M","e","m","o","r","y","E","r","r","o","r">>,
    <<"E","x","c","e","p","t","i","o","n">>,
    <<"N","e","t","w","o","r","k","A","c","c","e","s","s","E","r","r","o","r">>,
    <<"D","i","s","k","T","y","p","e","E","r","r","o","r">>,
    <<"R","e","s","o","u","r","c","e","T","i","m","e","o","u","t">> }

ExceptionMessages ==
  { <<"c","o","n","n","e","c","t","i","o","n"," ","r","e","f","u","s","e","d">>,
    <<"U","n","a","u","t","h","o","r","i","z","e","d">>,
    <<"r","e","q","u","e","s","t"," ","t","i","m","e","o","u","t">>,
    <<"4","2","9"," ","t","o","o"," ","m","a","n","y"," ","r","e","q","u","e","s","t","s">>,
    <<"r","a","t","e"," ","l","i","m","i","t",":"," ","i","n","v","a","l","i","d"," ","t","o","k","e","n">>,
    <<"b","a","d"," ","v","a","l","u","e">>,
    <<"A","P","I"," ",KELVIN_SIGN,"E","Y">>,
    <<"R","U+00C9","S","E","A","U",":"," ","F","O","R","B","I","D","D","E","N">>,
    <<"U+03A4","U+0399","U+039C","U+0395","U+039F","U+03A5","U+03A4",":"," ","U+0391","U+03A3">>,
    <<>> }

Contexts == {EmptyDict, [source |-> S_mcp_server, consecutive_failures |-> 4]}

Categories ==
  {CONNECTION, AUTHENTICATION, TIMEOUT, RATE_LIMIT, VALIDATION, SYSTEM_RESOURCE,
   MCP_SERVER, UNKNOWN}

Severities == {LOW, MEDIUM, HIGH, CRITICAL}

MaxCount == 12

InitPure ==
  /\ TrackerInit(0, "loop")
  /\ now = 0
  /\ max_errors = DefaultMaxErrors
  /\ config = [webhook_url |-> FALSE]
  /\ callsLeft = 0
  /\ ticksLeft = 0
  /\ pct = NoPercentile
  /\ CollectorInit(0, DefaultMaxSamples)
  /\ opsLeft = 0
  /\ NoScopes
  /\ pure \in {[NoCall EXCEPT !.fn = "categorize_error",
                               !.exception = [type |-> type, msg |-> msg],
                               !.context = context] :
                  type \in ExceptionTypes, msg \in ExceptionMessages, context \in Contexts}
             \cup
             {[NoCall EXCEPT !.fn = "determine_severity", !.category = category,
                             !.error_count = error_count, !.context = context] :
                  category \in Categories, error_count \in 1..MaxCount, context \in Contexts}

NextPure == Categorize \/ Severity

SpecPure == InitPure /\ [][NextPure]_vars

(***************************************************************************)
(* The claims.                                                             *)
(***************************************************************************)

\* every call so far had the same (type, message, function)
AllCallsIdentical ==
  \A i, j \in 1..Len(callLog) : callLog[i].signature = callLog[j].signature

\* the entries of self.errors under an id
EntriesOf(error_id) == {i \in 1..Len(errors) : heap[errors[i]].id = error_id}

\* C1: after n >= 1 track_error calls with identical (exception type name,
\* message, context.function), self.errors holds exactly one ErrorEvent for
\* that signature and its count is n.
C1_DedupCount ==
  (InProgress = {} /\ callLog # <<>> /\ AllCallsIdentical) =>
     /\ Cardinality(EntriesOf(callLog[1].error_id)) = 1
     /\ heap[ErrorObj(callLog[1].error_id)].count = Len(callLog)

\* C2: with each track_error call complete before the next begins, any two
\* alerts created for the same (rule, error id) are created at least the
\* rule's cooldown_seconds apart.
C2_AlertsCooldownApart ==
  \A i, j \in 1..Len(alertLog) :
     (i < j /\ alertLog[i].rule = alertLog[j].rule
            /\ alertLog[i].error_id = alertLog[j].error_id) =>
        alertLog[j].timestamp - alertLog[i].timestamp
           >= Seconds(alertLog[i].cooldown_seconds)

\* C3: whenever no track_error call is in progress, self.errors has at most
\* max_errors entries, whatever calls were made.
C3_ErrorsCapped == (InProgress = {}) => Len(errors) <= max_errors

\* C5: when a track_error call pushes self.errors over max_errors, the event
\* that call created or updated is still in self.errors when the call returns.
C5_NewEntrySurvives ==
  lastPrune.over => \E i \in 1..Len(lastPrune.kept) : lastPrune.kept[i].id = lastPrune.error_id

\* C4: whenever a track_error call finds more than max_errors
\* entries, its pruning pass removes exactly 100 entries, each with last_seen
\* no later than that of every entry it keeps.
C4_RemovesExactly100 ==
  lastPrune.over =>
     /\ Len(lastPrune.removed) = 100
     /\ \A i \in 1..Len(lastPrune.removed), j \in 1..Len(lastPrune.kept) :
           lastPrune.removed[i].last_seen <= lastPrune.kept[j].last_seen


\* C9: when k track_error calls with the same (type, message, function) run
\* concurrently in any interleaving, then once all have finished self.errors
\* holds exactly one ErrorEvent for the signature, with count k.
C9_ConcurrentDedup ==
  LET k == Len(callLog)
  IN  (k >= 1 /\ AllCallsIdentical /\ \A t \in Procs : task[t].pc = "idle") =>
         \E i \in 1..Len(errors) :
            /\ EntriesOf(callLog[1].error_id) = {i}
            /\ heap[errors[i]].count = k

\* the last cap members of a log (all of them, if there are fewer)
LastOf(log, cap) == SubSeq(log, Len(log) - Min(Len(log), cap) + 1, Len(log))

\* a dict of buffers holds, under every name, the last cap values inserted
HoldsLast(buffers, kind, cap) ==
  /\ \A name \in DOMAIN buffers :
        /\ <<kind, name>> \in DOMAIN inserted
        /\ Len(buffers[name]) = Min(Len(inserted[<<kind, name>>]), cap)
        /\ buffers[name] = LastOf(inserted[<<kind, name>>], cap)
  /\ \A key \in DOMAIN inserted : key[1] = kind => key[2] \in DOMAIN buffers

\* C6: after n insertions every bounded buffer (the histogram and timer
\* windows of capacity max_samples, the response-time windows of capacity
\* 1000, the error-timestamp rings of capacity 100, the recent-errors ring of
\* capacity 1000) holds exactly the last min(n, capacity) inserted values, in
\* insertion order.
C6_BuffersHoldLast ==
  /\ HoldsLast(histograms, "histograms", max_samples)
  /\ HoldsLast(timers, "timers", max_samples)
  /\ HoldsLast(response_times, "response_times", ResponseTimesMaxLen)
  /\ HoldsLast(error_rates, "error_rates", ErrorRatesMaxLen)
  /\ Len(recent_errors) = Min(Len(recentLog), RecentErrorsMaxLen)
  /\ recent_errors = LastOf(recentLog, RecentErrorsMaxLen)

\* every buffer of the collector has had one value more than it can hold
C6_Witness ==
  \E name \in MetricNames :
    /\ name \in DOMAIN histograms /\ name \in DOMAIN timers
    /\ name \in DOMAIN response_times /\ name \in DOMAIN error_rates
    /\ Len(inserted[<<"histograms", name>>]) = max_samples + 1
    /\ Len(histograms[name]) = max_samples
    /\ Len(inserted[<<"timers", name>>]) = max_samples + 1
    /\ Len(timers[name]) = max_samples
    /\ Len(inserted[<<"response_times", name>>]) = ResponseTimesMaxLen + 1
    /\ Len(response_times[name]) = ResponseTimesMaxLen
    /\ Len(inserted[<<"error_rates", name>>]) = ErrorRatesMaxLen + 1
    /\ Len(error_rates[name]) = ErrorRatesMaxLen

\* C7: after k >= 1 record_timer calls for a name and no record_request for
\* it, get_response_time_stats(name) is not absent and reports count = k and
\* the min, max, average and median of the recorded durations.
C7_TimerSamplesSummarised ==
  \A m \in Threads :
    (mtask[m].op = "get_response_time_stats" /\ mtask[m].pc = "release") =>
      LET name == mtask[m].name
          recorded == Get(inserted, <<"timers", name>>, <<>>)
      IN  (recorded # <<>> /\ Get(issued.requests, name, 0) = 0) =>
             /\ lastStats.stats # NoSummary
             /\ lastStats.stats.count = Len(recorded)
             /\ lastStats.stats.min_value = FromInt(MinOf(recorded))
             /\ lastStats.stats.max_value = FromInt(MaxOf(recorded))
             /\ lastStats.stats.avg_value = Mean(recorded)
             /\ lastStats.stats.median_value = Median(recorded)

\* 100 * x is within 2^-30 of the whole number k
HundredfoldNear(x, k) ==
  LET hundredfold == ExactMul(x, 100)
      slack == PowerOfTwo(FracLimbs * LimbBits - 30)
  IN  /\ ~FLess(ExactAdd(hundredfold, slack), FromInt(k))
      /\ ~FLess(ExactAdd(FromInt(k), slack), hundredfold)

\* C8: for a non-empty list of n samples and a percentile p in 0..100, with
\* rank = (p/100)*(n-1) on the ascending sort: no subscript is out of range;
\* if rank is integral the result is exactly the sample at that rank,
\* otherwise it is the interpolation between the samples at floor(rank) and
\* floor(rank)+1 (to within rounding); and the result lies between the
\* smallest and the largest sample.
C8_PercentileByRank ==
  (pct.done /\ pct.data # <<>>) =>
    LET n == Len(pct.data)
        rank100 == pct.percentile * (n - 1)
        at == rank100 \div 100
        lower == SortedAt(pct.data, at + 1)
        upper == SortedAt(pct.data, Min(at + 2, n))
    IN  /\ ~pct.raised
        /\ rank100 % 100 = 0 => pct.value = FromInt(lower)
        /\ rank100 % 100 # 0 =>
              HundredfoldNear(pct.value, 100 * lower + (upper - lower) * (rank100 % 100))
        /\ ~FLess(pct.value, FromInt(MinOf(pct.data)))
        /\ ~FLess(FromInt(MaxOf(pct.data)), pct.value)

\* C10: under any interleaving of the threads' calls, once every call has
\* returned each counter is the sum of its increments and each request count
\* is the number of record_request calls; and every get_all_metrics result
\* shows each record_request wholly applied or not at all: per endpoint, the
\* request count is the number of samples summarised, a failure count goes
\* with an error rate, and the rate is that of at most the counted failures
\* among the counted requests.
C10_CallsAreAtomic ==
  /\ (\A m \in Threads : mtask[m].pc = "idle") =>
        \A name \in MetricNames \cup Endpoints :
           /\ Get(counters, name, 0) = Get(issued.counters, name, 0)
           /\ Get(request_counts, name, 0) = Get(issued.requests, name, 0)
           /\ Get(error_counts, name, 0) = Get(issued.failures, name, 0)
  /\ \A e \in Endpoints :
        LET requests == Get(lastMetrics.request_counts, e, 0)
            failures == Get(lastMetrics.error_counts, e, 0)
        IN  /\ requests = IF e \in DOMAIN lastMetrics.response_time_stats
                          THEN lastMetrics.response_time_stats[e].count ELSE 0
            /\ failures <= requests
            /\ (failures > 0) = (e \in DOMAIN lastMetrics.error_rates)
            /\ e \in DOMAIN lastMetrics.error_rates =>
                  \E recent \in 0..failures :
                     lastMetrics.error_rates[e] = FMul(FDiv(FromInt(recent), requests), 100)

\* a get_all_metrics call waits for the lock while a record_request holding
\* it has counted the request and not yet stored its sample, after an
\* earlier get_all_metrics returned
C10_Witness ==
  \E m1, m2 \in Threads :
    /\ m1 # m2
    /\ mtask[m1].op = "get_all_metrics" /\ mtask[m1].pc = "acquire"
    /\ mtask[m2].op = "record_request" /\ mtask[m2].pc = "response_time"
    /\ lock.owner = m2
    /\ lastMetrics # NoMetrics

\* two calls are at once dispatching alerts of the same rule for the same
\* error id, both having checked the cooldown within the last cooldown_seconds
DispatchingTwice(t, u) ==
  /\ t # u
  /\ task[t].pc = "sending" /\ task[u].pc = "sending"
  /\ task[t].rule_idx = task[u].rule_idx
  /\ task[t].error_id = task[u].error_id
  /\ LET cooldown == Seconds(alert_rules[task[t].rule_idx].cooldown_seconds)
     IN  /\ now - task[t].check_time < cooldown
         /\ now - task[u].check_time < cooldown

\* C11: while a track_error call is dispatching its alert (suspended between
\* creating the alert and recording the firing time), a second qualifying
\* call for the same error id creates no alert for the same (rule, error id)
\* within cooldown_seconds.
C11_NoAlertWhileDispatching ==
  \A t, u \in Procs : ~DispatchingTwice(t, u)

\* the alert of a delivery attempt is stored under its id as it was created
AlertStored(attempt) ==
  LET created == alertLog[attempt.alert]
      alert_id == created.alert_id
  IN  /\ alert_id \in DOMAIN alerts
      /\ alerts[alert_id].timestamp = created.timestamp
      /\ alerts[alert_id].title = created.rule

\* the firing time of the attempt's (rule, error id) pair is recorded
FiringRecorded(attempt) ==
  LET created == alertLog[attempt.alert]
      rule_key == <<created.rule, created.error_id>>
  IN  /\ rule_key \in DOMAIN last_alert_times
      /\ last_alert_times[rule_key] = created.check_time

\* C12: when the delivery of an alert fails (the attempt raises an
\* Exception, or is answered with a status other than 200), no exception
\* leaves track_error, no alert is attempted twice, and when the call has
\* gone through its rules the alert is in self.alerts and the firing time of
\* its pair is recorded.  (A call that is cancelled while it waits for the
\* answer is no failed delivery: the cancellation goes on to its caller.)
C12_FailedDeliveryKept ==
  /\ \A i \in 1..Len(sendLog) :
        sendLog[i].outcome \in {"raised", "status"} => ~sendLog[i].propagated
  /\ \A i, j \in 1..Len(sendLog) : sendLog[i].alert = sendLog[j].alert => i = j
  /\ \A t \in Procs :
        task[t].pc = "prune" =>
          \A i \in 1..Len(sendLog) :
             (sendLog[i].call = task[t].call /\ sendLog[i].outcome # "ok") =>
                AlertStored(sendLog[i]) /\ FiringRecorded(sendLog[i])

\* a call whose webhook attempt raised has returned; its alert is stored and
\* its firing time recorded
C12_Witness ==
  /\ InProgress = {}
  /\ \E i \in 1..Len(sendLog) :
        /\ sendLog[i].outcome = "raised"
        /\ AlertStored(sendLog[i])
        /\ FiringRecorded(sendLog[i])

\* C13: a track_error call that fires an alert does not wait for the alert's
\* delivery: every call that has started returns, even if a sink never
\* answers.
C13_CallsReturn ==
  \A t \in 1..NumTasks : (task[t].pc # "idle") ~> (task[t].pc = "idle")

\* the scopes of a kind and a name that were left
ScopesLeft(kind, name) ==
  {i \in 1..Len(scopeLog) : scopeLog[i].kind = kind /\ scopeLog[i].name = name}

\* C14: every TimerContext scope that was left made exactly one record_timer
\* call for its metric name, when it was left (an open scope has made none),
\* whether its body returned or raised; and what the body raised went on to
\* the caller.
C14_OneTimerPerScope ==
  /\ \A i \in 1..Len(scopeLog) :
        scopeLog[i].kind = "timer" =>
          /\ scopeLog[i].calls = 1
          /\ scopeLog[i].propagated = (scopeLog[i].outcome # "returned")
  /\ \A name \in MetricNames :
        Len(Get(inserted, <<"timers", name>>, <<>>)) = Cardinality(ScopesLeft("timer", name))

\* a scope whose body raised and a scope whose body returned were left, a
\* third is open
C14_Witness ==
  /\ \E i, j \in 1..Len(scopeLog) :
        /\ scopeLog[i].kind = "timer" /\ scopeLog[i].outcome = "raised"
        /\ scopeLog[j].kind = "timer" /\ scopeLog[j].outcome = "returned"
        /\ Len(inserted[<<"timers", scopeLog[i].name>>]) = 2
  /\ \E s \in Scopes : scope[s].pc = "body" /\ scope[s].kind = "timer"

\* C15: every call of a function wrapped by track_request(endpoint) makes
\* exactly one record_request(endpoint, elapsed, success) call, with success
\* true exactly when the function returned (false when it raised anything,
\* cancellation included), and what it raised reaches the caller.
C15_OneRequestPerCall ==
  /\ \A i \in 1..Len(scopeLog) :
        scopeLog[i].kind = "request" =>
          /\ scopeLog[i].calls = 1
          /\ scopeLog[i].success = (scopeLog[i].outcome = "returned")
          /\ scopeLog[i].propagated = (scopeLog[i].outcome # "returned")
  /\ \A endpoint \in MetricNames :
        Get(request_counts, endpoint, 0) = Cardinality(ScopesLeft("request", endpoint))

\* the categories in the order of their tests
CategoryOrder ==
  <<CONNECTION, AUTHENTICATION, TIMEOUT, RATE_LIMIT, VALIDATION, SYSTEM_RESOURCE,
    MCP_SERVER>>

\* the predicate of a category, on the lower-cased type name and message
CategoryMatches(category, name, message, context) ==
  CASE category = CONNECTION ->
         AnyIn(name, ConnectionNames) \/ AnyIn(message, ConnectionMessages)
    [] category = AUTHENTICATION ->
         AnyIn(name, AuthenticationNames) \/ AnyIn(message, AuthenticationMessages)
    [] category = TIMEOUT ->
         Contains(name, S_timeout) \/ Contains(message, S_timeout)
    [] category = RATE_LIMIT -> AnyIn(message, RateLimitMessages)
    [] category = VALIDATION -> AnyIn(name, ValidationNames)
    [] category = SYSTEM_RESOURCE -> AnyIn(name, SystemResourceNames)
    [] category = MCP_SERVER ->
         "source" \in DOMAIN context /\ context["source"] = S_mcp_server

\* the first category whose predicate matches; UNKNOWN when none does
FirstMatch(exception, context) ==
  LET name == Lower(exception.type)
      message == Lower(exception.msg)
      matching == {i \in 1..Len(CategoryOrder) :
                     CategoryMatches(CategoryOrder[i], name, message, context)}
  IN  IF matching = {} THEN UNKNOWN
      ELSE CategoryOrder[CHOOSE i \in matching : \A j \in matching : i <= j]

\* the classifier on its own: categorize_error returns, for every exception
\* and context, the first category in the order CONNECTION, AUTHENTICATION,
\* TIMEOUT, RATE_LIMIT, VALIDATION, SYSTEM_RESOURCE, MCP_SERVER whose
\* predicate matches, and UNKNOWN exactly when none matches;
\* ConnectionError('connection refused') is CONNECTION, ValueError('bad
\* value') VALIDATION and Exception('429 too many requests') RATE_LIMIT.
FirstMatchWins ==
  (pure.done /\ pure.fn = "categorize_error") =>
    LET exception == pure.exception
        named(type, msg) == exception.type = type /\ exception.msg = msg
    IN  /\ pure.result \in Categories
        /\ pure.result = FirstMatch(exception, pure.context)
        /\ named(<<"C","o","n","n","e","c","t","i","o","n">> \o S_Error,
                 <<"c","o","n","n","e","c","t","i","o","n"," ","r","e","f","u","s","e","d">>)
             => pure.result = CONNECTION
        /\ (named(S_ValueError, S_bad_value) /\ pure.context = EmptyDict)
             => pure.result = VALIDATION
        /\ (named(S_Exception, <<"4","2","9"," ","t","o","o"," ","m","a","n","y"," ",
                                 "r","e","q","u","e","s","t","s">>)
              /\ pure.context = EmptyDict)
             => pure.result = RATE_LIMIT

\* C16: categorize_error is a total first-match-wins classifier, and every
\* track_error call therefore records an event with a category: each call
\* that has ended left, under its id, a record in the recent errors whose
\* category is one of the eight.
C16_EveryCallRecorded ==
  \A i \in 1..Len(returnLog) :
    \E k \in 1..Len(recentLog) :
      /\ recentLog[k].id = callLog[returnLog[i].call].error_id
      /\ recentLog[k].category \in Categories

\* the decision table, top-down
SeverityTable(category, error_count) ==
  IF category = SYSTEM_RESOURCE THEN CRITICAL
  ELSE IF category = MCP_SERVER /\ error_count > 3 THEN HIGH
  ELSE IF (category = CONNECTION \/ category = TIMEOUT) /\ error_count > 5 THEN HIGH
  ELSE IF error_count > 10 THEN MEDIUM
  ELSE LOW

\* C17: determine_severity(category, count, context) is, for every category
\* and count >= 1 and whatever the context: CRITICAL for SYSTEM_RESOURCE;
\* else HIGH for MCP_SERVER with count > 3; else HIGH for CONNECTION or
\* TIMEOUT with count > 5; else MEDIUM for count > 10; else LOW.
C17_SeverityTable ==
  (pure.done /\ pure.fn = "determine_severity") =>
     pure.result = SeverityTable(pure.category, pure.error_count)

\* an MCP_SERVER error seen 4 times, with a context, is HIGH
C17_Witness ==
  /\ pure.done /\ pure.fn = "determine_severity"
  /\ pure.category = MCP_SERVER /\ pure.error_count = 4
  /\ pure.context # EmptyDict
  /\ pure.result = HIGH

\* the step is a call of acknowledge_alert or resolve_alert
AlertOpStep == Len(opLog') = Len(opLog) + 1

\* the call the step made
StepOp == opLog'[Len(opLog')]

\* the stored alert differs from what it was in the flag flag alone
OnlyFlagSet(was, is, flag) == is = [was EXCEPT ![flag] = TRUE]

\* C18: an alert is stored unacknowledged and unresolved, and afterwards a
\* stored alert changes only by an acknowledge_alert or resolve_alert call
\* that names its id, which sets its flag: no track_error call changes,
\* resets or replaces an alert that is in ErrorTracker.alerts.
C18_FlagsOperatorDriven ==
  [][ /\ \A id \in DOMAIN alerts' \ DOMAIN alerts :
           ~alerts'[id].acknowledged /\ ~alerts'[id].resolved
      /\ \A id \in DOMAIN alerts :
           /\ id \in DOMAIN alerts'
           /\ \/ alerts'[id] = alerts[id]
              \/ /\ AlertOpStep
                 /\ StepOp.alert_id = id
                 /\ \/ /\ StepOp.op = "acknowledge_alert"
                       /\ OnlyFlagSet(alerts[id], alerts'[id], "acknowledged")
                    \/ /\ StepOp.op = "resolve_alert"
                       /\ OnlyFlagSet(alerts[id], alerts'[id], "resolved") ]_vars

\* C19: resolved is terminal: once resolve_alert has set resolved, no later
\* acknowledge_alert, resolve_alert or track_error call changes any field of
\* the alert: resolved stays true and acknowledged stays as it was.
C19_ResolvedIsTerminal ==
  [][ \A id \in DOMAIN alerts :
        alerts[id].resolved => (id \in DOMAIN alerts' /\ alerts'[id] = alerts[id]) ]_vars

\* what a call of op leaves in self.alerts
AlertOpResult(op, stored, alert_id) ==
  IF op = "acknowledge_alert" THEN acknowledge_alert(stored, alert_id)
  ELSE resolve_alert(stored, alert_id)

\* the flag a call of op sets
TargetFlag(op) == IF op = "acknowledge_alert" THEN "acknowledged" ELSE "resolved"

\* the tracker's own state, the clock and the calls in progress
trackerState ==
  <<max_errors, heap, errors, recent_errors, alerts, alert_rules, last_alert_times,
    config, now, task, running>>

\* C20: acknowledge_alert(id) and resolve_alert(id) are idempotent and
\* framed: a call with an id that is not in ErrorTracker.alerts, or whose
\* alert is in the target state already, changes nothing in the tracker;
\* any other call changes the named flag of the named alert and nothing
\* else; and a second call leaves the state the first one left.
C20_IdempotentAndFramed ==
  [][ AlertOpStep =>
        LET op == StepOp.op
            id == StepOp.alert_id
            flag == TargetFlag(op)
        IN  /\ UNCHANGED <<max_errors, heap, errors, recent_errors, alert_rules,
                           last_alert_times, config, now, task, running>>
            /\ DOMAIN alerts' = DOMAIN alerts
            /\ \A other \in DOMAIN alerts \ {id} : alerts'[other] = alerts[other]
            /\ (id \notin DOMAIN alerts) => UNCHANGED trackerState
            /\ (id \in DOMAIN alerts /\ alerts[id][flag]) => UNCHANGED trackerState
            /\ (id \in DOMAIN alerts /\ ~alerts[id][flag]) =>
                 OnlyFlagSet(alerts[id], alerts'[id], flag)
            /\ AlertOpResult(op, alerts', id) = alerts' ]_vars

\* the same call was made twice in a row on a stored alert, the first set
\* the flag and the second changed nothing, and a call named an unknown id
C20_Witness ==
  /\ \E i \in 1..(Len(opLog) - 1) :
       /\ opLog[i].op = opLog[i + 1].op
       /\ opLog[i].alert_id = opLog[i + 1].alert_id
       /\ opLog[i].alert_id \in DOMAIN opLog[i].before
       /\ opLog[i].after # opLog[i].before
       /\ opLog[i + 1].before = opLog[i].after
       /\ opLog[i + 1].after = opLog[i + 1].before
  /\ \E i \in 1..Len(opLog) :
       /\ opLog[i].alert_id \notin DOMAIN opLog[i].before
       /\ opLog[i].before # EmptyDict
       /\ opLog[i].after = opLog[i].before

\* the entries of the ring that are less than 300 seconds old at clock
\* reading current_time
TrailingWindow(ring, current_time) ==
  LET inside(entry) == current_time - entry.timestamp < Seconds(ErrorRateWindowSeconds)
  IN  SelectSeq(ring, inside)

\* C21: at any time error_rate_per_minute is the number of entries of the
\* recent-errors ring whose timestamp is within the trailing 300 seconds,
\* divided by 5: that is the value a call puts in its snapshot, and a step
\* that leaves the entries within the window as they were (an entry outside
\* of it tracked, aged or dropped) leaves the value as it was.
C21_ErrorRateOverWindow ==
  [][ /\ calculate_error_rate(now)' =
           [count |-> Len(TrailingWindow(recent_errors', now')), minutes |-> 5]
      /\ \A t \in Procs :
           (task[t].pc = "snapshot" /\ task'[t].pc = "rules") =>
              task'[t].alert_context.error_rate_per_minute =
                [count |-> Len(TrailingWindow(recent_errors, now)), minutes |-> 5]
      /\ (TrailingWindow(recent_errors', now') = TrailingWindow(recent_errors, now)) =>
           calculate_error_rate(now)' = calculate_error_rate(now) ]_vars

\* a call's snapshot counted the one entry within the window and left out
\* one that had aged out of it
C21_Witness ==
  \E t \in Procs :
    /\ task[t].pc = "rules"
    /\ Len(recent_errors) = 2
    /\ now - recent_errors[1].timestamp >= Seconds(ErrorRateWindowSeconds)
    /\ task[t].alert_context.error_rate_per_minute.count = 1

\* the stored error timestamps of an endpoint that are newer than
\* current_time - window_minutes
NewerFailures(endpoint, window_minutes, current_time) ==
  LET stored == Get(error_rates, endpoint, <<>>)
  IN  {i \in 1..Len(stored) : current_time - stored[i] < Seconds(window_minutes * 60)}

\* rate is 100 * k / n to within 2^-30: n * rate is within n * 2^-30 of 100 * k
RateNear(rate, k, n) ==
  LET scaled == ExactMul(rate, n)
      slack == ExactMul(PowerOfTwo(FracLimbs * LimbBits - 30), n)
  IN  /\ ~FLess(ExactAdd(scaled, slack), FromInt(100 * k))
      /\ ~FLess(ExactAdd(FromInt(100 * k), slack), scaled)

\* C22: get_error_rate(endpoint, window) is 100 * (the number of stored
\* error timestamps of the endpoint newer than now - window) / (the number
\* of record_request calls made for the endpoint, since the start); it is 0
\* for an endpoint with no failure or no request recorded; and it lies
\* between 0 and 100.
C22_ErrorRateWindowedOverLifetime ==
  [][ \A m \in DOMAIN mtask :
        (mtask[m].pc = "error_rate" /\ mtask'[m].pc = "release") =>
          LET endpoint == mtask[m].name
              k == Cardinality(NewerFailures(endpoint, mtask[m].value, now))
              n == Len(Get(inserted, <<"response_times", endpoint>>, <<>>))
              rate == lastRate'.rate
          IN  /\ lastRate'.endpoint = endpoint
              /\ Get(request_counts, endpoint, 0) = n
              /\ (Get(inserted, <<"error_rates", endpoint>>, <<>>) = <<>> \/ n = 0)
                   => rate = FromInt(0)
              /\ n > 0 => RateNear(rate, k, n)
              /\ ~FLess(rate, FromInt(0))
              /\ ~FLess(FromInt(100), rate) ]_vars

\* a rate was computed for an endpoint some of whose stored failures are
\* older than the window: it is above 0 and under 1 percent
C22_Witness ==
  \E m \in DOMAIN mtask :
    /\ mtask[m].op = "get_error_rate" /\ mtask[m].pc = "release"
    /\ lastRate.endpoint = mtask[m].name
    /\ \E i \in 1..Len(error_rates[mtask[m].name]) :
         now - error_rates[mtask[m].name][i] > Seconds(mtask[m].value * 60)
    /\ FLess(FromInt(0), lastRate.rate)
    /\ FLess(lastRate.rate, FromInt(1))

\* C23: a counter that is absent before its first increment starts from 0,
\* and no operation of the MetricsCollector makes the value of a counter
\* smaller than it was.
C23_CountersNeverDecrease ==
  [][ \A name \in MetricNames :
        /\ name \in DOMAIN counters => name \in DOMAIN counters'
        /\ Get(counters', name, 0) >= Get(counters, name, 0) ]_vars

\* the conditions of the default rules, on a snapshot
ConditionHolds(name, snapshot) ==
  \/ /\ name = "high_error_rate"
     /\ snapshot.error_rate_per_minute.count
          > 10 * snapshot.error_rate_per_minute.minutes
  \/ /\ name = "critical_system_error"
     /\ snapshot.category = SYSTEM_RESOURCE
  \/ /\ name = "mcp_server_down"
     /\ snapshot.category = MCP_SERVER
     /\ snapshot.consecutive_failures > 3
  \/ /\ name = "authentication_failures"
     /\ snapshot.category = AUTHENTICATION
     /\ snapshot.count > 5

\* the rule is enabled, no firing of the pair is recorded within
\* cooldown_seconds before the call's check, and the condition holds
Qualifies(t, rule) ==
  LET pair == RuleKey(rule, task[t].error_id)
  IN  /\ rule.enabled
      /\ \/ pair \notin DOMAIN last_alert_times
         \/ task[t].check_time - last_alert_times[pair] >= Seconds(rule.cooldown_seconds)
      /\ ConditionHolds(rule.name, task[t].alert_context)

\* C24: a call creates an alert for a rule exactly if the rule is enabled,
\* no firing of (rule, error id) is recorded within the last cooldown_seconds
\* and the rule's condition is true on the call's snapshot; the alert has the
\* rule's severity and the firing time of the pair is then recorded; for a
\* rule that does not qualify the call adds no alert and leaves the pair's
\* recorded firing time as it was.
C24_AlertIffRuleQualifies ==
  [][ /\ \A t \in Procs :
        LET idx == task[t].rule_idx
            rule == alert_rules[idx]
            pair == RuleKey(rule, task[t].error_id)
        IN  /\ (task[t].pc = "rules" /\ task'[t] # task[t] /\ idx <= Len(alert_rules)) =>
                 /\ Qualifies(t, rule) <=> task'[t].pc = "alert_id"
                 /\ ~Qualifies(t, rule) =>
                      /\ task'[t].pc = "rules" /\ task'[t].rule_idx = idx + 1
                      /\ UNCHANGED <<alerts, last_alert_times, alertLog>>
            /\ (task[t].pc = "create_alert" /\ task'[t] # task[t]) =>
                 /\ Len(alertLog') = Len(alertLog) + 1
                 /\ \E id \in DOMAIN alerts' :
                      /\ alerts'[id].title = rule.name
                      /\ alerts'[id].severity = rule.severity
                      /\ alerts'[id].timestamp = now
                      /\ alerts'[id].context = task[t].alert_context
                 /\ UNCHANGED last_alert_times
            /\ (task[t].pc = "record" /\ task'[t] # task[t]) =>
                 /\ last_alert_times' =
                      (pair :> task[t].check_time) @@ last_alert_times
                 /\ task'[t].pc = "rules" /\ task'[t].rule_idx = idx + 1
                 /\ UNCHANGED alerts
      /\ (\A u \in Procs : task[u].pc \notin {"create_alert", "record"}
                               \/ task'[u] = task[u])
           => UNCHANGED <<DOMAIN alerts, last_alert_times, alertLog>> ]_vars

\* a call passed the rule critical_system_error, which was switched off,
\* although its condition held and the pair had never fired, and no alert
\* was stored
C24_Witness ==
  \E t \in Procs :
    /\ task[t].pc = "rules" /\ task[t].rule_idx = 3
    /\ task[t].alert_context.category = SYSTEM_RESOURCE
    /\ ~alert_rules[2].enabled
    /\ last_alert_times = EmptyDict
    /\ alerts = EmptyDict

\* C25: track_error does not raise because of its context: with a context
\* that is None or empty, that lacks function, source, server_name or
\* consecutive_failures, or that has a malformed value for one of them (a
\* consecutive_failures that is not a number), the call returns normally,
\* the error recorded in errors and in the recent-errors ring.
C25_ContextNeverRaises ==
  \A i \in 1..Len(returnLog) :
    /\ ~returnLog[i].raised
    /\ \E k \in 1..Len(recentLog) : recentLog[k].id = callLog[returnLog[i].call].error_id

\* the ids of the events of an error map, and the event of an id
IdsOf(h, errs) == {h[errs[i]].id : i \in 1..Len(errs)}

EventOf(h, errs, id) == h[errs[CHOOSE i \in 1..Len(errs) : h[errs[i]].id = id]]

\* the step ends a call that found more than max_errors entries
PruningStep ==
  \E t \in Procs :
    /\ task[t].pc = "prune" /\ task'[t].pc = "idle"
    /\ Len(errors) > max_errors

\* the step is the update of the event of id by a call for that id
MatchingUpdate(id) ==
  \E t \in Procs :
    /\ task[t].pc = "update_write" /\ task'[t].pc = "severity"
    /\ task[t].error_id = id

\* C26: an ErrorEvent is new, then recurring, then evicted: it leaves
\* ErrorTracker.errors only in the pruning step of a call that found more
\* than max_errors entries, not because time passed nor by another
\* operation; while it is there its count grows by exactly 1 with each
\* matching call and not otherwise, and its last_seen never decreases; and
\* the first occurrence of a signature that is not there (never seen, or
\* evicted) creates an event with count = 1.
C26_EventLifeCycle ==
  [][ /\ \A id \in IdsOf(heap, errors) \ IdsOf(heap', errors') : PruningStep
      /\ \A id \in IdsOf(heap, errors) \cap IdsOf(heap', errors') :
           LET was == EventOf(heap, errors, id)
               is == EventOf(heap', errors', id)
           IN  /\ is.count = IF MatchingUpdate(id) THEN was.count + 1 ELSE was.count
               /\ is.last_seen >= was.last_seen
               /\ is.first_seen = was.first_seen
      /\ \A id \in IdsOf(heap', errors') \ IdsOf(heap, errors) :
           /\ EventOf(heap', errors', id).count = 1
           /\ \E t \in Procs : task[t].pc = "create" /\ task[t].error_id = id
      /\ \A t \in Procs :
           (task[t].pc = "test" /\ task'[t].pc # "test") =>
              (task'[t].pc = "update_read") = (task[t].error_id \in IdsOf(heap, errors)) ]_vars

\* an error was tracked, its event was evicted at the end of that call, and
\* the next call for the same signature made a new event with count 1
C26_Witness ==
  \E t \in Procs :
    /\ Len(callLog) = 2
    /\ callLog[1].error_id = callLog[2].error_id
    /\ lastPrune.over
    /\ lastPrune.error_id = callLog[1].error_id
    /\ \A j \in 1..Len(lastPrune.kept) : lastPrune.kept[j].id # lastPrune.error_id
    /\ task[t].pc = "severity"
    /\ task[t].error_id = callLog[2].error_id
    /\ heap[task[t].error_event].count = 1

\* the two contexts have the same value under key (a value that is not a
\* number equals only one that is not a number either)
SameValue(c1, c2, key, default) ==
  IF key \in NonNumericKeys(c1) \/ key \in NonNumericKeys(c2)
  THEN key \in NonNumericKeys(c1) /\ key \in NonNumericKeys(c2)
  ELSE Get(c1, key, default) = Get(c2, key, default)

\* the context passed to the call has a consecutive_failures above 3
ReportsManyFailures(t) ==
  /\ "consecutive_failures" \notin NonNumericKeys(task[t].context)
  /\ Get(task[t].context, "consecutive_failures", 0) > 3

\* C27: the snapshot a track_error call builds carries the
\* consecutive_failures and the server_name of the context passed to that
\* call; so a call of category MCP_SERVER whose context has
\* consecutive_failures > 3 fires mcp_server_down (the rule enabled, its
\* cooldown elapsed), also when the same error id was reported before with
\* consecutive_failures <= 3.
C27_SnapshotOfThisCall ==
  [][ \A t \in Procs :
        /\ (task[t].pc = "snapshot" /\ task'[t].pc = "rules") =>
             /\ SameValue(heap[task[t].error_event].context, task[t].context,
                          "consecutive_failures", 0)
             /\ task'[t].alert_context.server_name =
                  Get(task[t].context, "server_name", S_unknown)
        /\ (/\ task[t].pc = "rules" /\ task'[t] # task[t]
            /\ task[t].rule_idx <= Len(alert_rules)) =>
             LET rule == alert_rules[task[t].rule_idx]
             IN  (/\ rule.name = "mcp_server_down"
                  /\ rule.enabled
                  /\ ~InCooldown(rule, RuleKey(rule, task[t].error_id), task[t].check_time)
                  /\ task[t].category = MCP_SERVER
                  /\ ReportsManyFailures(t))
                    => task'[t].pc = "alert_id" ]_vars

\* C28: after every completed track_error call the severity stored on each
\* ErrorEvent is determine_severity of the event's own stored category and
\* stored count, also after calls that share an error id and differ in
\* context.source or in other fields of the context.
C28_SeverityOfStoredEvent ==
  (\A t \in Procs : task[t].pc = "idle") =>
     \A i \in 1..Len(errors) :
        LET event == heap[errors[i]]
        IN  event.severity = determine_severity(event.category, event.count, event.context)

\* C29: every alert creation adds an entry to ErrorTracker.alerts under an
\* id that no alert created before has: there are as many stored alerts as
\* rule firings, and none is overwritten, also when a rule fires for two
\* error ids within the same second.
C29_OneEntryPerFiring ==
  Cardinality(DOMAIN alerts) = Len(alertLog)

\* the (exception type name, message, context.function) of a call, and of
\* the first call of an event
CallTriple(t) ==
  <<task[t].exception.type, task[t].exception.msg, Get(task[t].context, "function", <<>>)>>

EventTriple(event) ==
  <<event.exception_type, event.message, Get(event.context, "function", <<>>)>>

\* C30: the error id separates distinct failures: two calls whose (exception
\* type name, message, context.function) differ in any component are not
\* merged into one ErrorEvent, whatever the strings (a message or function
\* name may contain ':'), and calls with equal triples have equal ids.
C30_IdSeparatesFailures ==
  \A t \in Procs :
    /\ (task[t].pc \notin {"idle", "test", "update_read", "create"}) =>
          EventTriple(heap[task[t].error_event]) = CallTriple(t)
    /\ (task[t].pc # "idle") =>
          \A i \in 1..Len(errors) :
             (EventTriple(heap[errors[i]]) = CallTriple(t))
                => heap[errors[i]].id = task[t].error_id

====
